---- MODULE Spec2Model ----
(***************************************************************************)
(* Timing engine of the audio-driven video assembly pipeline               *)
(* (modal_video_processor/aidobe_video_processor).                         *)
(*                                                                         *)
(* Numbers.  The code computes on Python floats (seconds).  Here a time is *)
(* an integer count of ticks, Unit ticks to the second, and the default    *)
(* tolerance 0.001 s is Tolerance ticks.  Addition, subtraction and        *)
(* multiplication by an integer are exact; a division rounds to the        *)
(* nearest tick (FxDiv) and a product of two fractional values rounds to   *)
(* the nearest tick (FxMul), which is how the rounding of a float          *)
(* operation shows up at this resolution.                                  *)
(*                                                                         *)
(* Objects.  Python lists of scene dicts are objects on a heap (a sequence *)
(* of timelines, a reference being an index), so that a repair operation   *)
(* working on copy.deepcopy(scenes) and one working on scenes itself are   *)
(* different things.                                                       *)
(***************************************************************************)
EXTENDS Integers, Sequences, FiniteSets, TLC

VARIABLES
    scenes,     \* SceneGapValidator: the caller's timeline (list of scene dicts)
    fixed,      \* the list the last validator call returned
    op,         \* the last validator call
    raised,     \* the exception the last validator call raised, "none" if it returned
    report,     \* the report of the last validate_scene_continuity / of fix_all's step 3
    argMin,     \* min_scene_duration of the last call (0: None)
    argTarget,  \* target_duration of the last enforce_total_duration call
    argTol,     \* tolerance of the last validate_scene_continuity call
    attempts,   \* number of repair strategies the last fix_all_timing_issues ran
    applications
                \* how many times in a row the last repair was applied to its own result

VARIABLES
    deficits,       \* SceneTimingCalculator._deficits of the calculator instance
    surpluses,      \* SceneTimingCalculator._surpluses
    timingOp,       \* the last calculator call
    timingArgs,     \* its arguments
    timingRaised,   \* the exception it raised, "none" if it returned
    durations       \* the list of scene durations it returned

VARIABLES
    syncOp,         \* AudioMasterSync: the last call
    syncArgs,       \* its arguments
    syncRaised,     \* the exception it raised, "none" if it returned
    synced,         \* the clips it returned (each the clip operation that made it)
    passed,         \* the target durations it handed to sync_video_to_audio_duration
    sceneDurations  \* the caller's scene_durations list after the call

VARIABLES
    request_data,   \* process_video_request: the request dict the webhook received
    pc,             \* the stage process_video_request is about to run
    temp_files,     \* its temp_files list
    created,        \* the temporary files the job has written so far
    cleaned,        \* the files cleanup_temp_files was called on
    log,            \* notifications sent and stages run, in order
    result,         \* the dict process_video_request returned
    webhookRaised   \* the exception it let through to its caller, "none" if none

VARIABLES
    duration_cache,   \* AudioDurationExtractor._duration_cache: file path -> duration
    extractorOp,      \* the last extractor call
    extractorArgs,    \* its arguments
    invoked,          \* the backends it invoked, in order, each with its outcome
    extracted,        \* the duration it returned
    extractorRaised   \* the failures its exception describes, <<>> if it returned

validatorVars ==
    <<scenes, fixed, op, raised, report, argMin, argTarget, argTol, attempts, applications>>

timingVars == <<deficits, surpluses, timingOp, timingArgs, timingRaised, durations>>

syncVars == <<syncOp, syncArgs, syncRaised, synced, passed, sceneDurations>>

webhookVars == <<request_data, pc, temp_files, created, cleaned, log, result, webhookRaised>>

extractorVars ==
    <<duration_cache, extractorOp, extractorArgs, invoked, extracted, extractorRaised>>

vars == <<validatorVars, timingVars, syncVars, webhookVars, extractorVars>>

----------------------------------------------------------------------------
(* Fixed-point numbers *)

\* default_tolerance = 0.001 s, in ticks
Tolerance == 10

\* one second, in ticks (0.001 s = Tolerance ticks)
Unit == 1000 * Tolerance

Abs(x) == IF x < 0 THEN -x ELSE x

Max(a, b) == IF a >= b THEN a ELSE b

Min(a, b) == IF a <= b THEN a ELSE b

\* n / d rounded to the nearest integer (d # 0)
RoundDiv(n, d) ==
    IF d > 0 THEN (2 * n + d) \div (2 * d) ELSE (-(2 * n) - d) \div (-(2 * d))

\* float division a / b of two tick counts of seconds, the quotient being a
\* dimensionless factor held with Unit ticks to 1.0
FxDiv(a, b) == RoundDiv(a * Unit, b)

\* float product of a tick count and a factor held with Unit ticks to 1.0
FxMul(a, f) == RoundDiv(a * f, Unit)

RECURSIVE SumSeq(_)
SumSeq(s) == IF s = <<>> THEN 0 ELSE Head(s) + SumSeq(Tail(s))

\* math.ceil(a / b) for b > 0
CeilDiv(a, b) == -((-a) \div b)

----------------------------------------------------------------------------
(* SceneTimingCalculator; min and max 0 stand for a falsy constraint (None). *)
(* A float rounding error far below one tick does not show in a duration,  *)
(* but it decides whether `deficit > 0` or `surplus > 0` holds in the      *)
(* tracking loop.  noise names the scene, if any, whose duration came out  *)
(* below (sign -1) or above (sign 1) the base duration by such an error;   *)
(* scene 0 is computed as 1 * base - 0.0 and carries none.                 *)

NoNoise == [scene |-> 0, sign |-> 0]

NoiseAt(noise, i) == IF i > 0 /\ noise.scene = i THEN noise.sign ELSE 0

LoopCountShort(scene_count) == scene_count - 1

\* for i in range(scene_count)
LoopCount(scene_count) == scene_count

\* the loop of _distribute_with_tracking from (0-based) scene i on
RECURSIVE TrackingLoop(_, _, _, _, _, _, _)
TrackingLoop(base_duration, scene_count, track, noise, i, running_total, acc) ==
    IF i >= LoopCount(scene_count) THEN acc
    ELSE LET ideal_total == (i + 1) * base_duration
             scene_duration == ideal_total - running_total
             deficit == Max(0, base_duration - scene_duration)
             surplus == Max(0, scene_duration - base_duration)
             even == deficit = 0 /\ surplus = 0
         IN  TrackingLoop(base_duration, scene_count, track, noise, i + 1,
                          running_total + scene_duration,
                          [durations |-> Append(acc.durations, scene_duration),
                           deficits |->
                               IF track /\ (deficit > 0 \/ (even /\ NoiseAt(noise, i) < 0))
                               THEN Append(acc.deficits, [scene |-> i, deficit |-> deficit])
                               ELSE acc.deficits,
                           surpluses |->
                               IF track /\ (surplus > 0 \/ (even /\ NoiseAt(noise, i) > 0))
                               THEN Append(acc.surpluses, [scene |-> i, surplus |-> surplus])
                               ELSE acc.surpluses])

\* if abs(actual_total - audio_duration) > 0.001: durations[-1] += adjustment
PrecisionAdjustment(ds, audio_duration) ==
    IF Abs(SumSeq(ds) - audio_duration) > Tolerance
    THEN [ds EXCEPT ![Len(ds)] = @ + (audio_duration - SumSeq(ds))]
    ELSE ds

DistributeWithTrackingCompensated(inst, audio_duration, scene_count, track, noise) ==
    LET base_duration == RoundDiv(audio_duration, scene_count)
        looped == TrackingLoop(base_duration, scene_count, track, noise, 0, 0,
                               [durations |-> <<>>, deficits |-> inst.deficits,
                                surpluses |-> inst.surpluses])
        owed == Len(looped.deficits) - Len(looped.surpluses)
    IN  [looped EXCEPT !.durations =
            [PrecisionAdjustment(@, audio_duration) EXCEPT ![scene_count] = @ + owed]]

\* inst is the instance's tracking state [deficits, surpluses]
DistributeWithTracking(inst, audio_duration, scene_count, track, noise) ==
    LET base_duration == RoundDiv(audio_duration, scene_count)
        looped == TrackingLoop(base_duration, scene_count, track, noise, 0, 0,
                               [durations |-> <<>>, deficits |-> inst.deficits,
                                surpluses |-> inst.surpluses])
    IN  [looped EXCEPT !.durations = PrecisionAdjustment(@, audio_duration)]

Repeat(x, n) == [i \in 1..n |-> x]

DistributeWithMinimumConstraint(audio_duration, scene_count, min_duration) ==
    LET total_min == scene_count * min_duration IN
    IF total_min > audio_duration
    THEN Repeat(min_duration, scene_count)
    ELSE LET bonus_per_scene == RoundDiv(audio_duration - total_min, scene_count) IN
         Repeat(min_duration + bonus_per_scene, scene_count)

\* for _ in range(additional_scenes): append min(remaining, max_duration)
RECURSIVE AdditionalScenes(_, _, _, _)
AdditionalScenes(ds, k, remaining, max_duration) ==
    IF k <= 0 THEN ds
    ELSE LET scene_duration == Min(remaining, max_duration) IN
         IF remaining - scene_duration <= 0
         THEN Append(ds, scene_duration)
         ELSE AdditionalScenes(Append(ds, scene_duration), k - 1,
                               remaining - scene_duration, max_duration)

\* base_duration = audio_duration / scene_count is compared with the bound
\* without the rounding of the division to a tick: audio / n <= max
DistributeWithMaximumConstraint(inst, audio_duration, scene_count, max_duration) ==
    IF audio_duration <= max_duration * scene_count
    THEN DistributeWithTracking(inst, audio_duration, scene_count, FALSE, NoNoise).durations
    ELSE LET capped == Repeat(max_duration, scene_count)
             remaining == audio_duration - scene_count * max_duration
         IN  IF remaining > 0
             THEN AdditionalScenes(capped, CeilDiv(remaining, max_duration),
                                   remaining, max_duration)
             ELSE capped

BelowMinimumSwapped(audio_duration, scene_count, min_d) ==
    min_d # 0 /\ audio_duration > min_d * scene_count

\* if min_scene_duration and base_duration < min_scene_duration
BelowMinimum(audio_duration, scene_count, min_d) ==
    min_d # 0 /\ audio_duration < min_d * scene_count

AboveMaximumSwapped(audio_duration, scene_count, max_d) ==
    max_d # 0 /\ audio_duration < max_d * scene_count

\* if max_scene_duration and base_duration > max_scene_duration
AboveMaximum(audio_duration, scene_count, max_d) ==
    max_d # 0 /\ audio_duration > max_d * scene_count

\* distribute_scene_durations: what it returns or raises, and the tracking
\* lists it leaves on the instance
DistributeSceneDurations(inst, audio_duration, scene_count, min_d, max_d, track, noise) ==
    IF audio_duration <= 0 \/ scene_count <= 0
    THEN [raised |-> "InvalidArgument", durations |-> <<>>,
          deficits |-> inst.deficits, surpluses |-> inst.surpluses]
    ELSE LET reset == IF track THEN [deficits |-> <<>>, surpluses |-> <<>>] ELSE inst
         IN  IF BelowMinimum(audio_duration, scene_count, min_d)
             THEN [raised |-> "none",
                   durations |-> DistributeWithMinimumConstraint(
                                     audio_duration, CeilDiv(audio_duration, min_d), min_d),
                   deficits |-> reset.deficits, surpluses |-> reset.surpluses]
             ELSE IF AboveMaximum(audio_duration, scene_count, max_d)
             THEN [raised |-> "none",
                   durations |-> DistributeWithMaximumConstraint(
                                     reset, audio_duration,
                                     CeilDiv(audio_duration, max_d), max_d),
                   deficits |-> reset.deficits, surpluses |-> reset.surpluses]
             ELSE LET out == DistributeWithTracking(reset, audio_duration, scene_count,
                                                    track, noise)
                  IN  [raised |-> "none", durations |-> out.durations,
                       deficits |-> out.deficits, surpluses |-> out.surpluses]

WeightedDurationUnweighted(weight, total_weight, audio_duration) ==
    FxMul(audio_duration, FxDiv(1, total_weight))

\* duration = (weight / total_weight) * audio_duration
WeightedDuration(weight, total_weight, audio_duration) ==
    FxMul(audio_duration, FxDiv(weight, total_weight))

\* distribute_scene_durations_weighted: what it returns or raises
DistributeSceneDurationsWeighted(audio_duration, scene_weights) ==
    IF audio_duration <= 0
    THEN [raised |-> "InvalidArgument", durations |-> <<>>]
    ELSE IF scene_weights = <<>> \/ \E i \in 1..Len(scene_weights) : scene_weights[i] <= 0
    THEN [raised |-> "InvalidArgument", durations |-> <<>>]
    ELSE LET total_weight == SumSeq(scene_weights)
             ds == [i \in 1..Len(scene_weights) |->
                       WeightedDuration(scene_weights[i], total_weight, audio_duration)]
         IN  [raised |-> "none", durations |-> PrecisionAdjustment(ds, audio_duration)]

----------------------------------------------------------------------------
(* AudioMasterSync.  A clip is [duration |-> d]; a returned clip is the record *)
(* of the one operation of the clip interface that produced it.              *)

Clip(d) == [duration |-> d]

ClipOp(kind, clip, arg1, arg2) ==
    [kind |-> kind, clip |-> clip, arg1 |-> arg1, arg2 |-> arg2]

\* video_clip.fx(lambda clip: clip.speedx(speed_factor))
Speedx(clip, speed_factor) == ClipOp("speedx", clip, speed_factor, 0)

\* video_clip.subclip(t_start, t_end)
Subclip(clip, t_start, t_end) == ClipOp("subclip", clip, t_start, t_end)

\* video_clip.loop(duration=total_duration)
Loop(clip, duration) == ClipOp("loop", clip, duration, 0)

\* concatenate_videoclips([video_clip, last_frame.set_duration(extension)]),
\* the frame taken at current_duration - 0.01
AppendFreeze(clip, extension_duration) ==
    ClipOp("append_freeze_last", clip, extension_duration, clip.duration - 10 * Tolerance)

\* concatenate_videoclips([video_clip, ColorClip(duration=extension)])
AppendBlack(clip, extension_duration) == ClipOp("append_black", clip, extension_duration, 0)

\* video_clip.set_duration(duration)
SetDuration(clip, duration) == ClipOp("set_duration", clip, duration, 0)

NoClip == ClipOp("none", Clip(0), 0, 0)

\* the keyword arguments left at their defaults
DefaultOptions ==
    [extend_strategy |-> "trim", trim_strategy |-> "from_end",
     fade_in_margin |-> 0, fade_out_margin |-> 0,
     adjust_speed |-> FALSE, min_video_duration |-> 0]

TotalDurationNoFades(audio_duration, o) ==
    IF o.min_video_duration # 0 /\ audio_duration < o.min_video_duration
    THEN o.min_video_duration ELSE audio_duration

\* target_duration, raised to min_video_duration, plus the fade margins
TotalDuration(audio_duration, o) ==
    (IF o.min_video_duration # 0 /\ audio_duration < o.min_video_duration
     THEN o.min_video_duration ELSE audio_duration)
    + o.fade_in_margin + o.fade_out_margin

SyncVideoToAudioDuration(video_clip, audio_duration, o) ==
    IF audio_duration <= 0 THEN [raised |-> "InvalidArgument", clip |-> NoClip]
    ELSE LET total_duration == TotalDuration(audio_duration, o)
             current_duration == video_clip.duration
             Ok(c) == [raised |-> "none", clip |-> c]
         IN
         IF o.adjust_speed /\ Abs(current_duration - total_duration) > Tolerance
         THEN IF total_duration = 0
              THEN [raised |-> "Exception", clip |-> NoClip]
              ELSE Ok(Speedx(video_clip, FxDiv(current_duration, total_duration)))
         ELSE IF o.trim_strategy = "from_start"
                 /\ current_duration > total_duration + Tolerance
         THEN Ok(Subclip(video_clip, 0, total_duration))
         ELSE IF o.trim_strategy = "center"
                 /\ current_duration > total_duration + Tolerance
         THEN LET start_time == RoundDiv(current_duration - total_duration, 2) IN
              Ok(Subclip(video_clip, start_time, start_time + total_duration))
         ELSE IF o.extend_strategy = "loop"
                 /\ current_duration < total_duration - Tolerance
         THEN Ok(Loop(video_clip, total_duration))
         ELSE IF o.extend_strategy = "freeze_last"
                 /\ current_duration < total_duration - Tolerance
         THEN Ok(AppendFreeze(video_clip, total_duration - current_duration))
         ELSE IF o.extend_strategy = "black"
                 /\ current_duration < total_duration - Tolerance
         THEN Ok(AppendBlack(video_clip, total_duration - current_duration))
         ELSE Ok(SetDuration(video_clip, total_duration))

EnforceVisualPreference(video_clip, audio_duration, visual_preference_duration) ==
    SetDuration(video_clip,
                IF visual_preference_duration # 0
                THEN visual_preference_duration ELSE audio_duration)

\* enforce_audio_priority; visual_preference_duration 0 stands for None
EnforceAudioPriority(video_clip, audio_duration, visual_preference_duration) ==
    SetDuration(video_clip, audio_duration)

\* a batch in progress: the clips synced so far and the targets passed so far
NoBatch == [raised |-> "none", synced |-> <<>>, passed |-> <<>>]

\* for clip, duration in zip(clips, targets): sync with the default options;
\* an exception of a sync ends the loop and the call
RECURSIVE SyncZip(_, _, _, _)
SyncZip(clips, targets, i, acc) ==
    IF i > Min(Len(clips), Len(targets)) THEN acc
    ELSE LET one == SyncVideoToAudioDuration(clips[i], targets[i], DefaultOptions)
             sofar == Append(acc.passed, targets[i])
         IN  IF one.raised # "none"
             THEN [raised |-> one.raised, synced |-> <<>>, passed |-> sofar]
             ELSE SyncZip(clips, targets, i + 1,
                          [acc EXCEPT !.synced = Append(@, one.clip), !.passed = sofar])

\* sync_video_scenes_to_audio_segments; segments are given by their durations
SyncVideoScenesToAudioSegments(video_clips, segment_durations) ==
    IF Len(video_clips) # Len(segment_durations)
    THEN [NoBatch EXCEPT !.raised = "InvalidArgument"]
    ELSE SyncZip(video_clips, segment_durations, 1, NoBatch)

\* a dict clip_id -> clip is the sequence of its items [clip_id, clip], in
\* insertion order, no key twice
DictHas(d, key) == \E k \in 1..Len(d) : d[k].clip_id = key

DictGet(d, key) == d[CHOOSE k \in 1..Len(d) : d[k].clip_id = key].clip

DictSet(d, key, clip) ==
    IF DictHas(d, key)
    THEN [k \in 1..Len(d) |-> IF d[k].clip_id = key THEN [d[k] EXCEPT !.clip = clip] ELSE d[k]]
    ELSE Append(d, [clip_id |-> key, clip |-> clip])

\* batch_sync_to_audio_timeline: for timeline_entry in audio_timeline
RECURSIVE TimelineLoop(_, _, _, _)
TimelineLoop(video_clips, audio_timeline, i, acc) ==
    IF i > Len(audio_timeline) THEN acc
    ELSE LET clip_id == audio_timeline[i].clip_id
             target_duration == audio_timeline[i].duration
         IN  IF ~DictHas(video_clips, clip_id)
             THEN [acc EXCEPT !.raised = "InvalidArgument", !.synced = <<>>]
             ELSE LET one == SyncVideoToAudioDuration(DictGet(video_clips, clip_id),
                                                      target_duration, DefaultOptions)
                      sofar == Append(acc.passed, target_duration)
                  IN  IF one.raised # "none"
                      THEN [raised |-> one.raised, synced |-> <<>>, passed |-> sofar]
                      ELSE TimelineLoop(video_clips, audio_timeline, i + 1,
                               [acc EXCEPT !.synced = DictSet(@, clip_id, one.clip),
                                           !.passed = sofar])

BatchSyncToAudioTimeline(video_clips, audio_timeline) ==
    TimelineLoop(video_clips, audio_timeline, 1, NoBatch)

\* sync_complete_video_to_master_audio; given = FALSE stands for
\* scene_durations=None.  The result also holds the caller's scene_durations
\* list as the call leaves it.
SyncCompleteVideoToMasterAudio(video_scenes, master_audio_duration, given, scene_durations) ==
    IF Len(video_scenes) = 0
    THEN [raised |-> "none", synced |-> <<>>, passed |-> <<>>, caller |-> scene_durations]
    ELSE LET used == IF given THEN scene_durations
                     ELSE Repeat(RoundDiv(master_audio_duration, Len(video_scenes)),
                                 Len(video_scenes))
             total_scene_duration == SumSeq(used)
             adjust == Abs(total_scene_duration - master_audio_duration) > Tolerance
         IN  IF adjust /\ Len(used) = 0
             THEN [raised |-> "IndexError", synced |-> <<>>, passed |-> <<>>,
                   caller |-> scene_durations]
             ELSE LET adjusted ==
                          IF adjust
                          THEN [used EXCEPT ![Len(used)] =
                                   @ + (master_audio_duration - total_scene_duration)]
                          ELSE used
                      batch == SyncZip(video_scenes, adjusted, 1, NoBatch)
                  IN  [raised |-> batch.raised, synced |-> batch.synced,
                       passed |-> batch.passed,
                       caller |-> IF given THEN adjusted ELSE scene_durations]

----------------------------------------------------------------------------
(* Bounds and inputs of the validator *)

MaxScenes == 3

S == Unit

\* the scene dicts the callers pass: start_time, end_time from a grid around
\* one second that holds gaps and overlaps of exactly the tolerance and of one
\* tick more
SceneStarts == {0, S, S + Tolerance, S + Tolerance + 1, 2 * S}
SceneEnds == {S, S + Tolerance, S + Tolerance + 1, 2 * S, 3 * S}

Scene(s, e, d) == [start_time |-> s, end_time |-> e, duration |-> d]

\* the scenes of the grid lasting about one second, and one whose duration
\* field is off its end_time - start_time by exactly the tolerance
SceneSet ==
    {Scene(p[1], p[2], p[2] - p[1]) :
        p \in {q \in SceneStarts \X SceneEnds :
                  2 * (q[2] - q[1]) >= S /\ q[2] - q[1] <= S + Tolerance + 1}}
    \cup {Scene(0, S, S + Tolerance)}

Timelines == UNION {[1..n -> SceneSet] : n \in 0..MaxScenes}

\* min_scene_duration arguments; 0 is None
MinDurations == {0, S + Tolerance, 2 * S}

\* target_duration arguments of enforce_total_duration
TargetDurations == {S, 3 * S, 5 * S}

\* tolerance arguments of validate_scene_continuity
Tolerances == {Tolerance, 2 * Tolerance}

----------------------------------------------------------------------------
(* SceneGapValidator._validate_scene_data *)

RequiredFields == {"start_time", "end_time", "duration"}

SceneErrorSignsUnchecked(sc) ==
    IF \E f \in RequiredFields : f \notin DOMAIN sc THEN "missing"
    ELSE IF sc.end_time <= sc.start_time THEN "end_time"
    ELSE IF Abs((sc.end_time - sc.start_time) - sc.duration) > Tolerance THEN "duration"
    ELSE "ok"

\* the first check of _validate_scene_data a scene dict fails, "ok" if none
SceneError(sc) ==
    IF \E f \in RequiredFields : f \notin DOMAIN sc THEN "missing"
    ELSE IF sc.end_time <= sc.start_time THEN "end_time"
    ELSE IF Abs((sc.end_time - sc.start_time) - sc.duration) > Tolerance THEN "duration"
    ELSE IF sc.start_time < 0 \/ sc.duration <= 0 THEN "negative"
    ELSE "ok"

\* for i, scene in enumerate(scenes): raise ValueError at the first failing
\* scene; scene indices are reported 0-based as in the code
RECURSIVE ValidateSceneData(_, _)
ValidateSceneData(t, i) ==
    IF i > Len(t) THEN [raised |-> "none", scene |-> -1, field |-> "ok"]
    ELSE IF SceneError(t[i]) # "ok"
         THEN [raised |-> "InvalidScene", scene |-> i - 1, field |-> SceneError(t[i])]
         ELSE ValidateSceneData(t, i + 1)

StructurallyValid(t) == \A i \in 1..Len(t) : SceneError(t[i]) = "ok"

----------------------------------------------------------------------------
(* SceneGapValidator.validate_scene_continuity *)

NoReport ==
    [raised |-> "none", scene |-> -1, field |-> "ok", is_valid |-> FALSE,
     gaps |-> <<>>, overlaps |-> <<>>, total_duration |-> 0]

GapRecord(t, i, gap) ==
    [after_scene |-> i - 1, gap_start |-> t[i].end_time,
     gap_end |-> t[i + 1].start_time, gap_duration |-> gap]

OverlapRecord(t, i, gap) ==
    [scene1 |-> i - 1, scene2 |-> i, overlap_start |-> t[i + 1].start_time,
     overlap_end |-> t[i].end_time, overlap_duration |-> Abs(gap)]

IsGapInclusive(gap_duration, tol) == gap_duration >= tol

\* if gap_duration > tolerance
IsGap(gap_duration, tol) == gap_duration > tol

\* elif gap_duration < -tolerance
IsOverlap(gap_duration, tol) == gap_duration < -tol

\* for i in range(len(scenes) - 1): append to gaps / overlaps
RECURSIVE ContinuityLoop(_, _, _, _, _)
ContinuityLoop(t, tol, i, gaps, overlaps) ==
    IF i > Len(t) - 1 THEN [gaps |-> gaps, overlaps |-> overlaps]
    ELSE LET gap_duration == t[i + 1].start_time - t[i].end_time IN
         IF IsGap(gap_duration, tol)
         THEN ContinuityLoop(t, tol, i + 1, Append(gaps, GapRecord(t, i, gap_duration)), overlaps)
         ELSE IF IsOverlap(gap_duration, tol)
         THEN ContinuityLoop(t, tol, i + 1, gaps, Append(overlaps, OverlapRecord(t, i, gap_duration)))
         ELSE ContinuityLoop(t, tol, i + 1, gaps, overlaps)

ValidateSceneContinuity(t, tol) ==
    LET data == ValidateSceneData(t, 1) IN
    IF data.raised # "none"
    THEN [NoReport EXCEPT !.raised = data.raised, !.scene = data.scene, !.field = data.field]
    ELSE IF Len(t) = 0
    THEN [NoReport EXCEPT !.is_valid = TRUE]
    ELSE IF Len(t) = 1
    THEN [NoReport EXCEPT !.is_valid = TRUE, !.total_duration = t[1].duration]
    ELSE LET found == ContinuityLoop(t, tol, 1, <<>>, <<>>) IN
         [NoReport EXCEPT !.is_valid = (Len(found.gaps) = 0 /\ Len(found.overlaps) = 0),
                          !.gaps = found.gaps, !.overlaps = found.overlaps,
                          !.total_duration = t[Len(t)].end_time - t[1].start_time]

----------------------------------------------------------------------------
(* The heap of list objects *)

DeepCopyAlias(h, r) == [heap |-> h, ref |-> r]

\* copy.deepcopy(scenes): a new list object holding copies of the scene dicts
DeepCopy(h, r) == [heap |-> Append(h, h[r]), ref |-> Len(h) + 1]

Returned(h, r) == [heap |-> h, ret |-> r, raised |-> "none"]

----------------------------------------------------------------------------
(* SceneGapValidator.fix_gaps_extend_previous; m = 0 stands for a falsy       *)
(* min_scene_duration (None or 0)                                           *)

ShiftSubsequentSkipNext(t, i, shift_amount) ==
    [j \in 1..Len(t) |->
        IF j > i + 1
        THEN [t[j] EXCEPT !.start_time = @ + shift_amount, !.end_time = @ + shift_amount]
        ELSE t[j]]

\* for j in range(i + 1, len(fixed_scenes)): shift start_time and end_time
ShiftSubsequent(t, i, shift_amount) ==
    [j \in 1..Len(t) |->
        IF j > i
        THEN [t[j] EXCEPT !.start_time = @ + shift_amount, !.end_time = @ + shift_amount]
        ELSE t[j]]

MinimumNeverViolated(m, duration) == FALSE

\* if min_scene_duration and current_scene['duration'] < min_scene_duration
MinimumViolated(m, duration) == m # 0 /\ duration < m

RECURSIVE ExtendLoop(_, _, _)
ExtendLoop(t, i, m) ==
    IF i > Len(t) - 1 THEN t
    ELSE LET gap_duration == t[i + 1].start_time - t[i].end_time IN
         IF gap_duration > Tolerance
         THEN LET extended ==
                      [t EXCEPT ![i].end_time = t[i + 1].start_time,
                                ![i].duration = t[i + 1].start_time - t[i].start_time]
              IN  IF MinimumViolated(m, extended[i].duration)
                  THEN LET extension_needed == m - extended[i].duration
                           atMin == [extended EXCEPT ![i].end_time = @ + extension_needed,
                                                     ![i].duration = m]
                       IN  ExtendLoop(ShiftSubsequent(atMin, i, extension_needed), i + 1, m)
                  ELSE ExtendLoop(extended, i + 1, m)
         ELSE ExtendLoop(t, i + 1, m)

FixGapsExtendPrevious(h, r, m) ==
    IF Len(h[r]) = 0 THEN Returned(h, r)
    ELSE LET c == DeepCopy(h, r) IN
         Returned([c.heap EXCEPT ![c.ref] = ExtendLoop(@, 1, m)], c.ref)

----------------------------------------------------------------------------
(* SceneGapValidator.fix_gaps_shift_following *)

ShiftEarlierShort(current_scene, shift_amount) ==
    [current_scene EXCEPT !.start_time = @ - (shift_amount - 2 * Tolerance),
                          !.end_time = @ - (shift_amount - 2 * Tolerance)]

ShiftEarlierStartOnly(current_scene, shift_amount) ==
    [current_scene EXCEPT !.start_time = @ - shift_amount]

\* current_scene['start_time'] -= shift_amount
\* current_scene['end_time'] -= shift_amount
ShiftEarlier(current_scene, shift_amount) ==
    [current_scene EXCEPT !.start_time = @ - shift_amount, !.end_time = @ - shift_amount]

\* for i in range(1, len(fixed_scenes)); i is the 1-based index of the
\* previous scene
RECURSIVE ShiftLoop(_, _)
ShiftLoop(t, i) ==
    IF i > Len(t) - 1 THEN t
    ELSE LET gap_duration == t[i + 1].start_time - t[i].end_time IN
         IF gap_duration > Tolerance
         THEN ShiftLoop([t EXCEPT ![i + 1] = ShiftEarlier(@, gap_duration)], i + 1)
         ELSE ShiftLoop(t, i + 1)

FixGapsShiftFollowing(h, r) ==
    IF Len(h[r]) = 0 THEN Returned(h, r)
    ELSE LET c == DeepCopy(h, r) IN
         Returned([c.heap EXCEPT ![c.ref] = ShiftLoop(@, 1)], c.ref)

----------------------------------------------------------------------------
(* SceneGapValidator.fix_overlaps_trim_previous *)

\* a floor of 0.0 seconds
OverlapFloorNone == 0 * Tolerance

\* current_scene['duration'] = 0.1  (minimum 100 ms duration)
OverlapFloor == 100 * Tolerance

TrimmedDurationKept(current_scene) == current_scene.duration

\* current_scene['duration'] = current_scene['end_time'] - current_scene['start_time']
TrimmedDuration(current_scene) == current_scene.end_time - current_scene.start_time

RECURSIVE TrimLoop(_, _)
TrimLoop(t, i) ==
    IF i > Len(t) - 1 THEN t
    ELSE IF t[i].end_time > t[i + 1].start_time
         THEN LET atNext == [t[i] EXCEPT !.end_time = t[i + 1].start_time]
                  trimmed == [t EXCEPT ![i] = [atNext EXCEPT !.duration = TrimmedDuration(atNext)]]
              IN  IF trimmed[i].duration <= 0
                  THEN TrimLoop([trimmed EXCEPT ![i].duration = OverlapFloor,
                                                ![i].end_time = t[i].start_time + OverlapFloor],
                                i + 1)
                  ELSE TrimLoop(trimmed, i + 1)
         ELSE TrimLoop(t, i + 1)

FixOverlapsTrimPrevious(h, r) ==
    IF Len(h[r]) = 0 THEN Returned(h, r)
    ELSE LET c == DeepCopy(h, r) IN
         Returned([c.heap EXCEPT ![c.ref] = TrimLoop(@, 1)], c.ref)

----------------------------------------------------------------------------
(* SceneGapValidator.fix_all_timing_issues *)

AlternativeApproachShiftOnly(h, r) == FixGapsShiftFollowing(h, r)

\* fixed_scenes = self.fix_gaps_shift_following(scenes)
\* fixed_scenes = self.fix_overlaps_trim_previous(fixed_scenes)
AlternativeApproach(h, r) ==
    LET alt1 == FixGapsShiftFollowing(h, r) IN
    FixOverlapsTrimPrevious(alt1.heap, alt1.ret)

\* the result also tells how many repair strategies ran and what step 3's
\* validation said; a ValueError of step 3 propagates to the caller
FixAllTimingIssues(h, r, m) ==
    IF Len(h[r]) = 0
    THEN [heap |-> h, ret |-> r, raised |-> "none", attempts |-> 0, validation |-> NoReport]
    ELSE LET step1 == FixOverlapsTrimPrevious(h, r)
             step2 == FixGapsExtendPrevious(step1.heap, step1.ret, m)
             validation == ValidateSceneContinuity(step2.heap[step2.ret], Tolerance)
         IN  IF validation.raised # "none"
             THEN [heap |-> step2.heap, ret |-> 0, raised |-> validation.raised,
                   attempts |-> 1, validation |-> validation]
             ELSE IF ~validation.is_valid
             THEN LET alt == AlternativeApproach(step2.heap, r)
                  IN  [heap |-> alt.heap, ret |-> alt.ret, raised |-> "none",
                       attempts |-> 2, validation |-> validation]
             ELSE [heap |-> step2.heap, ret |-> step2.ret, raised |-> "none",
                   attempts |-> 1, validation |-> validation]

----------------------------------------------------------------------------
(* SceneGapValidator.enforce_total_duration *)

Durations(t) == [i \in 1..Len(t) |-> t[i].duration]

ScaledDurationUnscaled(duration, adjustment_factor) == duration

\* scene['duration'] *= adjustment_factor
ScaledDuration(duration, adjustment_factor) == FxMul(duration, adjustment_factor)

\* for scene in fixed_scenes: restart at cumulative_time, scale the duration
RECURSIVE RescaleLoop(_, _, _, _)
RescaleLoop(t, i, adjustment_factor, cumulative_time) ==
    IF i > Len(t) THEN [scenes |-> t, cumulative_time |-> cumulative_time]
    ELSE LET duration == ScaledDuration(t[i].duration, adjustment_factor)
             scene == [t[i] EXCEPT !.start_time = cumulative_time,
                                   !.duration = duration,
                                   !.end_time = cumulative_time + duration]
         IN  RescaleLoop([t EXCEPT ![i] = scene], i + 1, adjustment_factor, scene.end_time)

\* the last scene takes what is left when the scaled total misses the target
FinalAdjustment(t, actual_total, target_duration) ==
    IF Abs(actual_total - target_duration) > Tolerance
    THEN LET adjustment == target_duration - actual_total IN
         [t EXCEPT ![Len(t)].duration = @ + adjustment,
                   ![Len(t)].end_time = @ + adjustment]
    ELSE t

EnforceTotalDuration(h, r, target_duration) ==
    IF Len(h[r]) = 0 THEN Returned(h, r)
    ELSE LET c == DeepCopy(h, r)
             current_total == SumSeq(Durations(c.heap[c.ref]))
         IN  IF Abs(current_total - target_duration) < Tolerance
             THEN Returned(c.heap, c.ref)
             ELSE IF current_total = 0
             THEN [heap |-> c.heap, ret |-> 0, raised |-> "ZeroDivisionError"]
             ELSE LET adjustment_factor == FxDiv(target_duration, current_total)
                      scaled == RescaleLoop(c.heap[c.ref], 1, adjustment_factor, 0)
                  IN  Returned([c.heap EXCEPT ![c.ref] =
                                   FinalAdjustment(scaled.scenes, scaled.cumulative_time,
                                                   target_duration)],
                               c.ref)

----------------------------------------------------------------------------
(* The validator as a state machine: a caller holding one timeline calls the *)
(* operations on it, in any order                                           *)

\* the state of a component no call has been made on
ValidatorIdle ==
    /\ fixed = <<>>
    /\ op = "none"
    /\ raised = "none"
    /\ report = NoReport
    /\ argMin = 0
    /\ argTarget = 0
    /\ argTol = 0
    /\ attempts = 0
    /\ applications = 0

NoTimingArgs ==
    [audio_duration |-> 0, scene_count |-> 0, min_scene_duration |-> 0,
     max_scene_duration |-> 0, track_deficit_surplus |-> FALSE]

\* SceneTimingCalculator.__init__
TimingIdle ==
    /\ deficits = <<>>
    /\ surpluses = <<>>
    /\ timingOp = "none"
    /\ timingArgs = NoTimingArgs
    /\ timingRaised = "none"
    /\ durations = <<>>

SyncIdle ==
    /\ syncOp = "none"
    /\ syncArgs = <<>>
    /\ syncRaised = "none"
    /\ synced = <<>>
    /\ passed = <<>>
    /\ sceneDurations = <<>>

NoRequest ==
    [has_job_id |-> FALSE, has_video_request |-> FALSE, callback_url |-> FALSE,
     storage_config |-> "absent", video_assets |-> 0]

NoResult == [status |-> "none", output_url |-> FALSE, error |-> FALSE]

\* no request has been received
WebhookIdle ==
    /\ request_data = NoRequest
    /\ pc = "idle"
    /\ temp_files = <<>>
    /\ created = {}
    /\ cleaned = {}
    /\ log = <<>>
    /\ result = NoResult
    /\ webhookRaised = "none"

\* the empty dict
EmptyCache == [p \in {} |-> 0]

\* AudioDurationExtractor.__init__
ExtractorIdle ==
    /\ duration_cache = EmptyCache
    /\ extractorOp = "none"
    /\ extractorArgs = <<>>
    /\ invoked = <<>>
    /\ extracted = 0
    /\ extractorRaised = <<>>

ValidatorInit ==
    /\ scenes \in Timelines
    /\ TimingIdle
    /\ SyncIdle
    /\ WebhookIdle
    /\ ExtractorIdle
    /\ fixed = <<>>
    /\ op = "none"
    /\ raised = "none"
    /\ report = NoReport
    /\ argMin = 0
    /\ argTarget = 0
    /\ argTol = 0
    /\ attempts = 0
    /\ applications = 0

\* what a call leaves in the caller's hands: its own list, and the returned one
AfterCall(res, name) ==
    /\ scenes' = res.heap[1]
    /\ fixed' = IF res.raised = "none" THEN res.heap[res.ret] ELSE <<>>
    /\ raised' = res.raised
    /\ op' = name
    /\ applications' = 1
    /\ UNCHANGED <<timingVars, syncVars, webhookVars, extractorVars>>

CallValidateSceneContinuity ==
    \E tol \in Tolerances :
        /\ report' = ValidateSceneContinuity(scenes, tol)
        /\ raised' = report'.raised
        /\ op' = "validate_scene_continuity"
        /\ argTol' = tol
        /\ fixed' = <<>>
        /\ argMin' = 0 /\ argTarget' = 0 /\ attempts' = 0 /\ applications' = 0
        /\ UNCHANGED <<scenes, timingVars, syncVars, webhookVars, extractorVars>>

CallFixGapsExtendPrevious ==
    \E m \in MinDurations :
        /\ AfterCall(FixGapsExtendPrevious(<<scenes>>, 1, m), "fix_gaps_extend_previous")
        /\ argMin' = m
        /\ report' = NoReport /\ argTarget' = 0 /\ argTol' = 0 /\ attempts' = 0

CallFixGapsShiftFollowing ==
    /\ AfterCall(FixGapsShiftFollowing(<<scenes>>, 1), "fix_gaps_shift_following")
    /\ report' = NoReport /\ argMin' = 0 /\ argTarget' = 0 /\ argTol' = 0 /\ attempts' = 0

CallFixOverlapsTrimPrevious ==
    /\ AfterCall(FixOverlapsTrimPrevious(<<scenes>>, 1), "fix_overlaps_trim_previous")
    /\ report' = NoReport /\ argMin' = 0 /\ argTarget' = 0 /\ argTol' = 0 /\ attempts' = 0

CallFixAllTimingIssues ==
    \E m \in MinDurations :
        LET res == FixAllTimingIssues(<<scenes>>, 1, m) IN
        /\ AfterCall(res, "fix_all_timing_issues")
        /\ argMin' = m
        /\ report' = res.validation
        /\ attempts' = res.attempts
        /\ argTarget' = 0 /\ argTol' = 0

CallEnforceTotalDuration ==
    \E target \in TargetDurations :
        /\ AfterCall(EnforceTotalDuration(<<scenes>>, 1, target), "enforce_total_duration")
        /\ argTarget' = target
        /\ report' = NoReport /\ argMin' = 0 /\ argTol' = 0 /\ attempts' = 0

ValidatorNext ==
    \/ CallValidateSceneContinuity
    \/ CallFixGapsExtendPrevious
    \/ CallFixGapsShiftFollowing
    \/ CallFixOverlapsTrimPrevious
    \/ CallFixAllTimingIssues
    \/ CallEnforceTotalDuration

ValidatorSpec == ValidatorInit /\ [][ValidatorNext]_vars

----------------------------------------------------------------------------
(* Repairing a repaired timeline: the caller hands the list a repair       *)
(* returned back to the same repair, with the same min_scene_duration      *)

MaxApplications == 2

RepairOperations ==
    {"fix_gaps_extend_previous", "fix_gaps_shift_following",
     "fix_overlaps_trim_previous", "fix_all_timing_issues"}

\* a repair of the caller's timeline as it was given
RepairInput ==
    /\ applications = 0
    /\ \/ CallFixGapsExtendPrevious
       \/ CallFixGapsShiftFollowing
       \/ CallFixOverlapsTrimPrevious
       \/ CallFixAllTimingIssues

\* the same repair, called on the list it returned
RepairAgain ==
    /\ op \in RepairOperations
    /\ raised = "none"
    /\ applications \in 1..(MaxApplications - 1)
    /\ LET all == FixAllTimingIssues(<<fixed>>, 1, argMin)
           res == CASE op = "fix_gaps_extend_previous" ->
                           FixGapsExtendPrevious(<<fixed>>, 1, argMin)
                    [] op = "fix_gaps_shift_following" -> FixGapsShiftFollowing(<<fixed>>, 1)
                    [] op = "fix_overlaps_trim_previous" -> FixOverlapsTrimPrevious(<<fixed>>, 1)
                    [] OTHER -> all
       IN  /\ scenes' = res.heap[1]
           /\ fixed' = IF res.raised = "none" THEN res.heap[res.ret] ELSE <<>>
           /\ raised' = res.raised
           /\ report' = IF op = "fix_all_timing_issues" THEN all.validation ELSE NoReport
           /\ attempts' = IF op = "fix_all_timing_issues" THEN all.attempts ELSE 0
    /\ applications' = applications + 1
    /\ UNCHANGED <<op, argMin, argTarget, argTol, timingVars, syncVars, webhookVars,
                   extractorVars>>

RepairSpec == ValidatorInit /\ [][RepairInput \/ RepairAgain]_vars

----------------------------------------------------------------------------
(* validate_scene_continuity on timelines that hold malformed scene dicts *)

\* one scene dict per check of _validate_scene_data: no duration field, end
\* before start, duration off by more than the tolerance, a negative start,
\* and a zero duration
InvalidScenes ==
    {[start_time |-> 0, end_time |-> S],
     Scene(2 * S, S, S),
     Scene(0, S, S + Tolerance + 1),
     Scene(-S, 0, S),
     Scene(0, Tolerance, 0)}

\* well-formed scenes that follow each other, leave a gap or overlap
ValidScenes == {Scene(0, S, S), Scene(S, 2 * S, S), Scene(2 * S, 3 * S, S)}

AnyTimelines == UNION {[1..n -> ValidScenes \cup InvalidScenes] : n \in 0..MaxScenes}

ContinuityInit ==
    /\ scenes \in AnyTimelines
    /\ ValidatorIdle
    /\ TimingIdle
    /\ SyncIdle
    /\ WebhookIdle
    /\ ExtractorIdle

ContinuityNext == CallValidateSceneContinuity

ContinuitySpec == ContinuityInit /\ [][ContinuityNext]_vars

----------------------------------------------------------------------------
(* The calculator as a state machine: calls on one calculator instance *)

MaxCount == 4

\* audio_duration arguments: none, one second, and two that do not divide
\* evenly by every scene count
AudioDurations == {0, S, 7 * S, 10 * S + 1}

SceneCounts == 0..MaxCount

\* min_scene_duration / max_scene_duration arguments; 0 is None
SceneConstraints == {0, 2 * S, 3 * S}

\* the scene a rounding error falls on, and its sign
RoundingNoise ==
    {NoNoise} \cup {[scene |-> k, sign |-> sg] : k \in 1..(MaxCount - 1), sg \in {-1, 1}}

CallDistributeSceneDurations ==
    /\ timingOp = "none"
    /\ \E a \in AudioDurations, n \in SceneCounts, mn \in SceneConstraints,
       mx \in SceneConstraints, track \in BOOLEAN :
        \E noise \in IF track THEN RoundingNoise ELSE {NoNoise} :
            LET out == DistributeSceneDurations(
                           [deficits |-> deficits, surpluses |-> surpluses],
                           a, n, mn, mx, track, noise)
            IN  /\ timingOp' = "distribute_scene_durations"
                /\ timingArgs' = [audio_duration |-> a, scene_count |-> n,
                                  min_scene_duration |-> mn, max_scene_duration |-> mx,
                                  track_deficit_surplus |-> track]
                /\ timingRaised' = out.raised
                /\ durations' = out.durations
                /\ deficits' = out.deficits
                /\ surpluses' = out.surpluses
                /\ UNCHANGED <<validatorVars, syncVars, webhookVars, extractorVars>>

MaxWeights == 3

\* scene_weights arguments: up to MaxWeights weights, 0 being an invalid one
Weights == {0, 1, 3}

WeightLists == UNION {[1..n -> Weights] : n \in 0..MaxWeights}

\* audio_duration arguments of the weighted distribution
WeightedAudioDurations == {0, S, 2 * S}

CallDistributeSceneDurationsWeighted ==
    /\ timingOp = "none"
    /\ \E a \in WeightedAudioDurations, w \in WeightLists :
        LET out == DistributeSceneDurationsWeighted(a, w)
        IN  /\ timingOp' = "distribute_scene_durations_weighted"
            /\ timingArgs' = [audio_duration |-> a, scene_weights |-> w]
            /\ timingRaised' = out.raised
            /\ durations' = out.durations
            /\ UNCHANGED <<deficits, surpluses, validatorVars, syncVars, webhookVars, extractorVars>>

\* clear_tracking
CallClearTracking ==
    /\ timingOp = "none"
    /\ timingOp' = "clear_tracking"
    /\ timingArgs' = NoTimingArgs
    /\ timingRaised' = "none"
    /\ durations' = <<>>
    /\ deficits' = <<>>
    /\ surpluses' = <<>>
    /\ UNCHANGED <<validatorVars, syncVars, webhookVars, extractorVars>>

\* the caller has taken the result; the instance keeps its tracking lists
DropTimingResult ==
    /\ timingOp # "none"
    /\ timingOp' = "none"
    /\ timingArgs' = NoTimingArgs
    /\ timingRaised' = "none"
    /\ durations' = <<>>
    /\ UNCHANGED <<deficits, surpluses, validatorVars, syncVars, webhookVars, extractorVars>>

TimingInit ==
    scenes = <<>> /\ ValidatorIdle /\ TimingIdle /\ SyncIdle /\ WebhookIdle /\ ExtractorIdle

TimingNext ==
    \/ CallDistributeSceneDurations
    \/ CallDistributeSceneDurationsWeighted
    \/ CallClearTracking
    \/ DropTimingResult

TimingSpec == TimingInit /\ [][TimingNext]_vars

----------------------------------------------------------------------------
(* Properties of the calculator *)

\* C1: for total_duration > 0 and scene_count > 0 with no min/max constraint,
\* distribute_scene_durations returns exactly scene_count durations whose sum
\* differs from total_duration by less than the tolerance.
C1_SumExactness ==
    (/\ timingOp = "distribute_scene_durations"
     /\ timingArgs.audio_duration > 0
     /\ timingArgs.scene_count > 0
     /\ timingArgs.min_scene_duration = 0
     /\ timingArgs.max_scene_duration = 0) =>
        /\ timingRaised = "none"
        /\ Len(durations) = timingArgs.scene_count
        /\ Abs(SumSeq(durations) - timingArgs.audio_duration) < Tolerance

\* a duration that does not divide evenly, split over three scenes or more
C1_Witness ==
    /\ timingOp = "distribute_scene_durations"
    /\ timingRaised = "none"
    /\ timingArgs.min_scene_duration = 0
    /\ timingArgs.max_scene_duration = 0
    /\ timingArgs.scene_count >= 3
    /\ Len(durations) = timingArgs.scene_count
    /\ durations[1] * timingArgs.scene_count # timingArgs.audio_duration

DistributeCalled == timingOp = "distribute_scene_durations"

\* C14: when total_duration / scene_count > max_duration (no minimum given),
\* distribute_scene_durations caps the scenes at max_duration: every returned
\* scene but the last lasts exactly max_duration, the last holds the
\* remainder (at most max_duration), and the durations sum to total_duration.
C14_CapsAtMaximum ==
    (/\ DistributeCalled
     /\ timingArgs.scene_count > 0
     /\ timingArgs.min_scene_duration = 0
     /\ timingArgs.max_scene_duration > 0
     /\ timingArgs.audio_duration
            > timingArgs.max_scene_duration * timingArgs.scene_count) =>
        /\ timingRaised = "none"
        /\ Len(durations) > 0
        /\ \A i \in 1..(Len(durations) - 1) : durations[i] = timingArgs.max_scene_duration
        /\ durations[Len(durations)] <= timingArgs.max_scene_duration
        /\ Abs(SumSeq(durations) - timingArgs.audio_duration) < Tolerance

\* C15: for total_duration > 0, scene_count > 0 and max_scene_duration > 0 with
\* no minimum, no returned duration exceeds max_scene_duration and at least
\* scene_count scenes are returned.
C15_MaximumRespected ==
    (/\ DistributeCalled
     /\ timingArgs.audio_duration > 0
     /\ timingArgs.scene_count > 0
     /\ timingArgs.min_scene_duration = 0
     /\ timingArgs.max_scene_duration > 0) =>
        /\ timingRaised = "none"
        /\ \A i \in 1..Len(durations) : durations[i] <= timingArgs.max_scene_duration
        /\ Len(durations) >= timingArgs.scene_count

\* the even split would exceed the maximum, and more scenes come back
C15_Witness ==
    /\ DistributeCalled
    /\ timingRaised = "none"
    /\ timingArgs.min_scene_duration = 0
    /\ timingArgs.max_scene_duration > 0
    /\ timingArgs.audio_duration
           > timingArgs.max_scene_duration * timingArgs.scene_count
    /\ Len(durations) > timingArgs.scene_count

\* C16: when total_duration / scene_count < min_duration,
\* distribute_scene_durations returns ceil(total_duration / min_duration)
\* scenes, each of at least min_duration, whose sum is at least
\* total_duration.
C16_MinimumRespected ==
    (/\ DistributeCalled
     /\ timingArgs.audio_duration > 0
     /\ timingArgs.scene_count > 0
     /\ timingArgs.min_scene_duration > 0
     /\ timingArgs.audio_duration
            < timingArgs.min_scene_duration * timingArgs.scene_count) =>
        /\ timingRaised = "none"
        /\ Len(durations) * timingArgs.min_scene_duration >= timingArgs.audio_duration
        /\ (Len(durations) - 1) * timingArgs.min_scene_duration < timingArgs.audio_duration
        /\ \A i \in 1..Len(durations) : durations[i] >= timingArgs.min_scene_duration
        /\ SumSeq(durations) >= timingArgs.audio_duration

\* the minimum does not divide the total: the scenes sum to more than the audio
C16_Witness ==
    /\ DistributeCalled
    /\ timingRaised = "none"
    /\ timingArgs.min_scene_duration > 0
    /\ timingArgs.audio_duration
           < timingArgs.min_scene_duration * timingArgs.scene_count
    /\ Len(durations) >= 2
    /\ SumSeq(durations) > timingArgs.audio_duration

WeightedCalled == timingOp = "distribute_scene_durations_weighted"

\* C17: for total_duration > 0 and a non-empty list of weights all > 0,
\* distribute_scene_durations_weighted returns one duration per weight, each
\* within the tolerance of weight[i] / sum(weights) * total_duration, summing
\* to total_duration within the tolerance, and a larger weight gets a longer
\* duration.
C17_WeightedProportional ==
    (/\ WeightedCalled
     /\ timingArgs.audio_duration > 0
     /\ timingArgs.scene_weights # <<>>
     /\ \A i \in 1..Len(timingArgs.scene_weights) : timingArgs.scene_weights[i] > 0) =>
        LET w == timingArgs.scene_weights
            total_weight == SumSeq(w)
        IN  /\ timingRaised = "none"
            /\ Len(durations) = Len(w)
            /\ \A i \in 1..Len(w) :
                   Abs(durations[i] * total_weight - w[i] * timingArgs.audio_duration)
                       < Tolerance * total_weight
            /\ Abs(SumSeq(durations) - timingArgs.audio_duration) < Tolerance
            /\ \A i, j \in 1..Len(w) : w[i] > w[j] => durations[i] > durations[j]

\* three weights, not all equal, that do not divide the total evenly
C17_Witness ==
    /\ WeightedCalled
    /\ timingRaised = "none"
    /\ Len(durations) = 3
    /\ timingArgs.scene_weights[1] < timingArgs.scene_weights[2]
    /\ SumSeq(durations) # timingArgs.audio_duration

NewCalculator == [deficits |-> <<>>, surpluses |-> <<>>]

\* C18: deficit/surplus tracking never affects results: whatever earlier calls
\* left in the tracking lists, and whatever rounding the tracking records, a
\* call returns (or raises) what a new calculator returns for the same
\* audio_duration, scene_count, min and max with track_deficit_surplus the
\* other way round.
C18_TrackingDoesNotAffectResult ==
    DistributeCalled =>
        LET other == DistributeSceneDurations(
                         NewCalculator, timingArgs.audio_duration, timingArgs.scene_count,
                         timingArgs.min_scene_duration, timingArgs.max_scene_duration,
                         ~timingArgs.track_deficit_surplus, NoNoise)
        IN  durations = other.durations /\ timingRaised = other.raised

\* an untracked call on a calculator whose lists an earlier tracked call filled
C18_Witness ==
    /\ DistributeCalled
    /\ timingRaised = "none"
    /\ ~timingArgs.track_deficit_surplus
    /\ deficits # <<>>
    /\ Len(durations) >= 2

----------------------------------------------------------------------------
(* Properties of the validator *)

Revalidated(t) == ValidateSceneContinuity(t, Tolerance)

ReportedValid(t) == Revalidated(t).raised = "none" /\ Revalidated(t).is_valid

GapBetween(t, i) == t[i + 1].start_time - t[i].end_time

\* C2: for a non-empty structurally valid timeline, fix_all_timing_issues runs at
\* most two repair attempts and either returns a timeline that
\* validate_scene_continuity reports valid or raises; it never returns a
\* still-invalid timeline as a normal result.
C2_FixAllValidOrFails ==
    (op = "fix_all_timing_issues" /\ Len(scenes) > 0 /\ StructurallyValid(scenes)) =>
        /\ attempts <= 2
        /\ raised # "none" \/ ReportedValid(fixed)

\* C3: for a structurally valid timeline with gaps and no overlaps, and any
\* min_scene_duration, what fix_gaps_extend_previous returns is reported valid
\* by validate_scene_continuity.
C3_ExtendRepairsGaps ==
    (/\ op = "fix_gaps_extend_previous"
     /\ Revalidated(scenes).raised = "none"
     /\ Revalidated(scenes).gaps # <<>>
     /\ Revalidated(scenes).overlaps = <<>>) =>
        raised = "none" /\ ReportedValid(fixed)

C3_Witness ==
    /\ op = "fix_gaps_extend_previous"
    /\ argMin # 0
    /\ Len(scenes) = 3
    /\ Revalidated(scenes).raised = "none"
    /\ Revalidated(scenes).gaps # <<>>
    /\ Revalidated(scenes).overlaps = <<>>
    /\ fixed[1].duration = argMin
    /\ fixed[3].start_time > scenes[3].start_time

\* C4: for a structurally valid timeline of two or more scenes,
\* validate_scene_continuity reports, in ascending index order, one gap record
\* for exactly the adjacent pairs with start_{i+1} - end_i > eps, one overlap
\* record for exactly the pairs with start_{i+1} - end_i < -eps, each with the
\* fields of the pair, and is_valid is true iff both lists are empty.
C4_ValidateReportsExactly ==
    (op = "validate_scene_continuity" /\ raised = "none" /\ Len(scenes) >= 2) =>
        LET pairs == 1..(Len(scenes) - 1)
            gapPairs == {i \in pairs : GapBetween(scenes, i) > argTol}
            overlapPairs == {i \in pairs : GapBetween(scenes, i) < -argTol}
            gaps == report.gaps
            overlaps == report.overlaps
        IN  /\ Len(gaps) = Cardinality(gapPairs)
            /\ \A k \in 1..Len(gaps) :
                   LET i == gaps[k].after_scene + 1 IN
                   /\ i \in gapPairs
                   /\ gaps[k] = [after_scene |-> i - 1,
                                 gap_start |-> scenes[i].end_time,
                                 gap_end |-> scenes[i + 1].start_time,
                                 gap_duration |-> GapBetween(scenes, i)]
            /\ \A k \in 1..(Len(gaps) - 1) : gaps[k].after_scene < gaps[k + 1].after_scene
            /\ Len(overlaps) = Cardinality(overlapPairs)
            /\ \A k \in 1..Len(overlaps) :
                   LET i == overlaps[k].scene1 + 1 IN
                   /\ i \in overlapPairs
                   /\ overlaps[k] = [scene1 |-> i - 1, scene2 |-> i,
                                     overlap_start |-> scenes[i + 1].start_time,
                                     overlap_end |-> scenes[i].end_time,
                                     overlap_duration |-> -GapBetween(scenes, i)]
            /\ \A k \in 1..(Len(overlaps) - 1) : overlaps[k].scene1 < overlaps[k + 1].scene1
            /\ report.is_valid = (gaps = <<>> /\ overlaps = <<>>)

\* a report holding an overlap and a gap of one tick more than the tolerance
C4_Witness ==
    /\ op = "validate_scene_continuity"
    /\ raised = "none"
    /\ Len(report.gaps) = 1
    /\ Len(report.overlaps) = 1
    /\ ~report.is_valid
    /\ report.gaps[1].gap_duration = argTol + 1

\* C5: for a contiguous, structurally valid, non-empty timeline and a target
\* duration > 0, enforce_total_duration returns a timeline whose durations sum
\* to the target within the tolerance and that validate_scene_continuity
\* reports valid.
C5_EnforceSumAndContinuity ==
    (op = "enforce_total_duration" /\ Len(scenes) > 0 /\ ReportedValid(scenes)) =>
        /\ raised = "none"
        /\ Abs(SumSeq(Durations(fixed)) - argTarget) <= Tolerance
        /\ ReportedValid(fixed)

\* a contiguous timeline of three scenes, not starting at 0, rescaled
C5_Witness ==
    /\ op = "enforce_total_duration"
    /\ Len(scenes) = 3
    /\ ReportedValid(scenes)
    /\ SumSeq(Durations(scenes)) # argTarget
    /\ Durations(fixed) # Durations(scenes)

\* C7: no repair operation changes the timeline passed to it: across every call
\* the caller's list keeps each scene's start_time, end_time and duration.
C7_InputUnchanged == [][scenes' = scenes]_vars

\* a repair that returned a list differing from the input it was given
C7_Witness ==
    /\ op \in {"fix_gaps_extend_previous", "fix_gaps_shift_following",
                "fix_overlaps_trim_previous", "fix_all_timing_issues",
                "enforce_total_duration"}
    /\ raised = "none"
    /\ fixed # scenes

----------------------------------------------------------------------------
(* AudioMasterSync as a state machine: calls with drawn arguments *)

MaxClips == 2

\* durations of the clips handed to sync_video_to_audio_duration: around the
\* two-second target by the tolerance and one tick more, and far from it
SingleClipDurations ==
    {S, 2 * S - Tolerance - 1, 2 * S - Tolerance, 2 * S,
     2 * S + Tolerance, 2 * S + Tolerance + 1, 4 * S}

\* audio_duration arguments of the single-clip calls
SingleAudioDurations == {0, 2 * S}

OptionSets ==
    [extend_strategy : {"trim", "loop", "freeze_last", "black"},
     trim_strategy : {"from_end", "from_start", "center"},
     fade_in_margin : {0, S \div 2},
     fade_out_margin : {0, S \div 4},
     adjust_speed : BOOLEAN,
     min_video_duration : {0, 3 * S}]

\* visual_preference_duration arguments; 0 is None
VisualPreferences == {0, S, 2 * S}

\* lists of clips and of target durations of the batch calls
ClipLists == UNION {[1..n -> {Clip(S), Clip(3 * S)}] : n \in 0..MaxClips}

DurationLists == UNION {[1..n -> {S, 2 * S}] : n \in 0..MaxClips}

ClipIds == {"a", "b"}

ClipDicts ==
    {d \in UNION {[1..n -> [clip_id : ClipIds, clip : {Clip(S), Clip(3 * S)}]] :
                     n \in 0..MaxClips} :
        \A j, k \in 1..Len(d) : d[j].clip_id = d[k].clip_id => j = k}

AudioTimelines ==
    UNION {[1..n -> [clip_id : ClipIds, duration : {S, 2 * S}]] : n \in 0..MaxClips}

MasterDurations == {3 * S, 3 * S + Tolerance, 4 * S}

SyncInit ==
    scenes = <<>> /\ ValidatorIdle /\ TimingIdle /\ SyncIdle /\ WebhookIdle /\ ExtractorIdle

CallSyncVideoToAudioDuration ==
    /\ syncOp = "none"
    /\ \E d \in SingleClipDurations, a \in SingleAudioDurations, o \in OptionSets :
        LET out == SyncVideoToAudioDuration(Clip(d), a, o) IN
        /\ syncOp' = "sync_video_to_audio_duration"
        /\ syncArgs' = [video_clip |-> Clip(d), audio_duration |-> a, options |-> o]
        /\ syncRaised' = out.raised
        /\ synced' = IF out.raised = "none" THEN <<out.clip>> ELSE <<>>
        /\ passed' = <<>>
        /\ sceneDurations' = <<>>
        /\ UNCHANGED <<validatorVars, timingVars, webhookVars, extractorVars>>

CallEnforceAudioPriority ==
    /\ syncOp = "none"
    /\ \E d \in SingleClipDurations, a \in SingleAudioDurations, v \in VisualPreferences :
        /\ syncOp' = "enforce_audio_priority"
        /\ syncArgs' = [video_clip |-> Clip(d), audio_duration |-> a,
                        visual_preference_duration |-> v]
        /\ syncRaised' = "none"
        /\ synced' = <<EnforceAudioPriority(Clip(d), a, v)>>
        /\ passed' = <<>>
        /\ sceneDurations' = <<>>
        /\ UNCHANGED <<validatorVars, timingVars, webhookVars, extractorVars>>

CallSyncVideoScenesToAudioSegments ==
    /\ syncOp = "none"
    /\ \E clips \in ClipLists, segments \in DurationLists :
        LET out == SyncVideoScenesToAudioSegments(clips, segments) IN
        /\ syncOp' = "sync_video_scenes_to_audio_segments"
        /\ syncArgs' = [video_clips |-> clips, audio_segments |-> segments]
        /\ syncRaised' = out.raised
        /\ synced' = out.synced
        /\ passed' = out.passed
        /\ sceneDurations' = <<>>
        /\ UNCHANGED <<validatorVars, timingVars, webhookVars, extractorVars>>

CallBatchSyncToAudioTimeline ==
    /\ syncOp = "none"
    /\ \E clips \in ClipDicts, timeline \in AudioTimelines :
        LET out == BatchSyncToAudioTimeline(clips, timeline) IN
        /\ syncOp' = "batch_sync_to_audio_timeline"
        /\ syncArgs' = [video_clips |-> clips, audio_timeline |-> timeline]
        /\ syncRaised' = out.raised
        /\ synced' = out.synced
        /\ passed' = out.passed
        /\ sceneDurations' = <<>>
        /\ UNCHANGED <<validatorVars, timingVars, webhookVars, extractorVars>>

CallSyncCompleteVideoToMasterAudio ==
    /\ syncOp = "none"
    /\ \E clips \in ClipLists, master \in MasterDurations, given \in BOOLEAN,
       ds \in DurationLists :
        LET out == SyncCompleteVideoToMasterAudio(clips, master, given, ds) IN
        /\ given \/ ds = <<>>
        /\ syncOp' = "sync_complete_video_to_master_audio"
        /\ syncArgs' = [video_scenes |-> clips, master_audio_duration |-> master,
                        given |-> given, scene_durations |-> ds]
        /\ syncRaised' = out.raised
        /\ synced' = out.synced
        /\ passed' = out.passed
        /\ sceneDurations' = out.caller
        /\ UNCHANGED <<validatorVars, timingVars, webhookVars, extractorVars>>

\* the caller is done with what the call returned; the next call starts afresh
\* (an AudioMasterSync keeps nothing between calls but default_tolerance)
DropSyncResult ==
    /\ syncOp # "none"
    /\ syncOp' = "none"
    /\ syncArgs' = <<>>
    /\ syncRaised' = "none"
    /\ synced' = <<>>
    /\ passed' = <<>>
    /\ sceneDurations' = <<>>
    /\ UNCHANGED <<validatorVars, timingVars, webhookVars, extractorVars>>

SyncNext ==
    \/ DropSyncResult
    \/ CallSyncVideoToAudioDuration
    \/ CallEnforceAudioPriority
    \/ CallSyncVideoScenesToAudioSegments
    \/ CallBatchSyncToAudioTimeline
    \/ CallSyncCompleteVideoToMasterAudio

SyncSpec == SyncInit /\ [][SyncNext]_vars

----------------------------------------------------------------------------
(* Properties of AudioMasterSync *)

\* C6: enforce_audio_priority sets the clip's duration to exactly
\* audio_duration: the operation it returns is set_duration(audio_duration)
\* whatever the visual preference (given or absent) and the clip's duration.
C6_AudioPriority ==
    syncOp = "enforce_audio_priority" =>
        /\ syncRaised = "none"
        /\ Len(synced) = 1
        /\ synced[1].kind = "set_duration"
        /\ synced[1].arg1 = syncArgs.audio_duration
        /\ synced[1].clip = syncArgs.video_clip

\* a call whose visual preference and clip duration both differ from the audio
C6_Witness ==
    /\ syncOp = "enforce_audio_priority"
    /\ syncArgs.audio_duration > 0
    /\ syncArgs.visual_preference_duration \notin {0, syncArgs.audio_duration}
    /\ syncArgs.video_clip.duration # syncArgs.audio_duration
    /\ synced[1].arg1 = syncArgs.audio_duration

\* C8: for target_duration > 0, sync_video_to_audio_duration applies exactly one
\* clip operation, chosen from T = max(target, min_video_duration or 0) + fades
\* and d = clip.duration: speed scaling by d/T when adjust_speed and
\* |d - T| > eps; else the trim of the trim strategy when d > T + eps, the
\* extension of the extend strategy when d < T - eps; else set_duration(T).
C8_SyncChoosesOneOperation ==
    (syncOp = "sync_video_to_audio_duration" /\ syncArgs.audio_duration > 0) =>
        LET o == syncArgs.options
            d == syncArgs.video_clip.duration
            T == Max(syncArgs.audio_duration, o.min_video_duration)
                    + o.fade_in_margin + o.fade_out_margin
            c == synced[1]
        IN  /\ syncRaised = "none"
            /\ Len(synced) = 1
            /\ c.clip = syncArgs.video_clip
            /\ IF o.adjust_speed /\ Abs(d - T) > Tolerance
               THEN c.kind = "speedx" /\ c.arg1 = FxDiv(d, T)
               ELSE IF d > T + Tolerance /\ o.trim_strategy = "from_start"
               THEN c.kind = "subclip" /\ c.arg1 = 0 /\ c.arg2 = T
               ELSE IF d > T + Tolerance /\ o.trim_strategy = "center"
               THEN /\ c.kind = "subclip"
                    /\ c.arg1 = RoundDiv(d - T, 2)
                    /\ c.arg2 = RoundDiv(d - T, 2) + T
               ELSE IF d < T - Tolerance /\ o.extend_strategy = "loop"
               THEN c.kind = "loop" /\ c.arg1 = T
               ELSE IF d < T - Tolerance /\ o.extend_strategy = "freeze_last"
               THEN c.kind = "append_freeze_last" /\ c.arg1 = T - d
               ELSE IF d < T - Tolerance /\ o.extend_strategy = "black"
               THEN c.kind = "append_black" /\ c.arg1 = T - d
               ELSE c.kind = "set_duration" /\ c.arg1 = T

\* speed scaling chosen over a trim strategy that would also apply, with both
\* fade margins and the minimum video duration in the target
C8_Witness ==
    /\ syncOp = "sync_video_to_audio_duration"
    /\ syncArgs.options.adjust_speed
    /\ syncArgs.options.trim_strategy = "from_start"
    /\ syncArgs.options.fade_in_margin > 0
    /\ syncArgs.options.fade_out_margin > 0
    /\ syncArgs.options.min_video_duration > syncArgs.audio_duration
    /\ syncArgs.video_clip.duration >
           syncArgs.options.min_video_duration + syncArgs.options.fade_in_margin
               + syncArgs.options.fade_out_margin + Tolerance
    /\ syncRaised = "none"
    /\ synced[1].kind = "speedx"

\* the number of clips and the number of targets of a batch call
ClipCount ==
    IF syncOp = "batch_sync_to_audio_timeline"
    THEN Len(syncArgs.video_clips)
    ELSE IF syncOp = "sync_video_scenes_to_audio_segments"
    THEN Len(syncArgs.video_clips)
    ELSE Len(syncArgs.video_scenes)

TargetCount ==
    IF syncOp = "batch_sync_to_audio_timeline"
    THEN Len(syncArgs.audio_timeline)
    ELSE IF syncOp = "sync_video_scenes_to_audio_segments"
    THEN Len(syncArgs.audio_segments)
    ELSE Len(syncArgs.scene_durations)

IsBatchCall ==
    \/ syncOp \in {"sync_video_scenes_to_audio_segments", "batch_sync_to_audio_timeline"}
    \/ syncOp = "sync_complete_video_to_master_audio" /\ syncArgs.given

\* C9: every batch sync operation raises InvalidArgument when the number of
\* clips differs from the number of target durations, and then syncs no clip.
C9_CountMismatchRaises ==
    (IsBatchCall /\ ClipCount # TargetCount) =>
        syncRaised = "InvalidArgument" /\ passed = <<>>

\* C10: for a non-empty list of clips and master_audio_duration > 0, with scene
\* durations supplied or derived, the target durations that
\* sync_complete_video_to_master_audio passes to the single-clip sync sum to
\* master_audio_duration within the tolerance.
C10_PassedSumToMaster ==
    (/\ syncOp = "sync_complete_video_to_master_audio"
     /\ Len(syncArgs.video_scenes) > 0
     /\ syncArgs.master_audio_duration > 0) =>
        Abs(SumSeq(passed) - syncArgs.master_audio_duration) <= Tolerance

----------------------------------------------------------------------------
(* modal_webhook.process_video_request: one job from the request to the    *)
(* returned result.  The outcome of each external operation (HEAD request, *)
(* download, process_complete_video) is the environment's choice.          *)

MaxAssets == 2

\* the request dicts the webhook receives: job_id and video_request present
\* or not, callback_url given or not, storage_config absent, a dict or null,
\* and the number of video_assets
Requests ==
    [has_job_id : BOOLEAN, has_video_request : BOOLEAN, callback_url : BOOLEAN,
     storage_config : {"absent", "dict", "null"}, video_assets : 0..MaxAssets]

\* the temporary files of a job: audio_path, video_path of asset i, output_path
AudioPath == [kind |-> "audio", index |-> 0]

VideoPath(i) == [kind |-> "video", index |-> i]

OutputPath == [kind |-> "output", index |-> 0]

\* entries of the log
Progress(stage) == [kind |-> "progress", name |-> stage, ok |-> TRUE]

Stage(name, ok) == [kind |-> "stage", name |-> name, ok |-> ok]

Final(status) == [kind |-> "final", name |-> status, ok |-> TRUE]

\* if callback_url: await send_progress_update(callback_url, {'stage': stage})
SendProgressUpdate(l, stage) ==
    IF request_data.callback_url THEN Append(l, Progress(stage)) ELSE l

SendCompletionOnSuccessOnly(l, res) ==
    IF request_data.callback_url /\ res.status = "completed"
    THEN Append(l, Final(res.status))
    ELSE l

\* if callback_url: await send_completion_callback(callback_url, result)
SendCompletionCallback(l, res) ==
    IF request_data.callback_url THEN Append(l, Final(res.status)) ELSE l

\* cleanup_temp_files(file_paths): removal is attempted for every path listed
CleanupTempFiles(file_paths) == {file_paths[i] : i \in DOMAIN file_paths}

IsValidMissingOnly(missing_assets, inaccessible_assets) == missing_assets = 0

\* 'is_valid': len(missing_assets) == 0 and len(inaccessible_assets) == 0
IsValid(missing_assets, inaccessible_assets) ==
    missing_assets = 0 /\ inaccessible_assets = 0

\* what process_complete_video can do: fail before export_video has written
\* the output file, fail after it (in the metadata step), or succeed; with no
\* video file distribute_scene_durations raises on scene_count 0
ProcessingOutcomes(video_files) ==
    IF video_files = 0
    THEN {"failed_before_export"}
    ELSE {"failed_before_export", "failed_after_export", "success"}

\* the dict process_complete_video returns
ProcessCompleteVideo(outcome) ==
    IF outcome = "success"
    THEN [status |-> "success", output_path |-> TRUE]
    ELSE [status |-> "failed", output_path |-> FALSE]

FailureResult == [status |-> "failed", output_url |-> FALSE, error |-> TRUE]

\* except Exception: send the failure callback, return failure_result;
\* finally: cleanup_temp_files(temp_files)
FailJob(l, files) ==
    /\ result' = FailureResult
    /\ log' = SendCompletionCallback(l, FailureResult)
    /\ temp_files' = files
    /\ cleaned' = CleanupTempFiles(files)
    /\ webhookRaised' = "none"
    /\ pc' = "returned"

\* the stage went through: on to the next one
Proceed(l, files, next) ==
    /\ log' = l
    /\ temp_files' = files
    /\ pc' = next
    /\ UNCHANGED <<result, cleaned, webhookRaised>>

WebhookInit ==
    /\ scenes = <<>>
    /\ ValidatorIdle
    /\ TimingIdle
    /\ SyncIdle
    /\ ExtractorIdle
    /\ request_data \in Requests
    /\ pc = "required_fields"
    /\ temp_files = <<>>
    /\ created = {}
    /\ cleaned = {}
    /\ log = <<>>
    /\ result = NoResult
    /\ webhookRaised = "none"

\* if 'job_id' not in request_data / if 'video_request' not in request_data
CheckRequiredFields ==
    /\ pc = "required_fields"
    /\ LET ok == request_data.has_job_id /\ request_data.has_video_request
           l == Append(log, Stage("required_fields", ok))
       IN  IF ok THEN Proceed(l, temp_files, "asset_validation")
                 ELSE FailJob(l, temp_files)
    /\ UNCHANGED <<request_data, created, validatorVars, timingVars, syncVars, extractorVars>>

\* progress 'validating', then validate_asset_accessibility: every HEAD
\* request that fails or does not answer 200 adds to inaccessible_assets;
\* nothing is ever added to missing_assets
ValidateAssetAccessibility ==
    /\ pc = "asset_validation"
    /\ \E inaccessible_assets \in 0..(request_data.video_assets + 1) :
        LET l == Append(SendProgressUpdate(log, "validating"),
                        Stage("asset_validation", inaccessible_assets = 0))
        IN  IF IsValid(0, inaccessible_assets)
            THEN Proceed(l, temp_files, "download_audio")
            ELSE FailJob(l, temp_files)
    /\ UNCHANGED <<request_data, created, validatorVars, timingVars, syncVars, extractorVars>>

\* progress 'downloading', then download_file(audio_url, audio_path)
DownloadAudio ==
    /\ pc = "download_audio"
    /\ \E ok \in BOOLEAN :
        LET l == Append(SendProgressUpdate(log, "downloading"), Stage("download", ok))
        IN  IF ok
            THEN /\ created' = created \cup {AudioPath}
                 /\ Proceed(l, Append(temp_files, AudioPath),
                            IF request_data.video_assets = 0
                            THEN "processing" ELSE "download_video")
            ELSE /\ created' = created
                 /\ FailJob(l, temp_files)
    /\ UNCHANGED <<request_data, validatorVars, timingVars, syncVars, extractorVars>>

\* for i, asset in enumerate(video_request['video_assets']): download_file
DownloadVideo ==
    /\ pc = "download_video"
    /\ \E ok \in BOOLEAN :
        LET i == Len(temp_files) - 1
            l == Append(log, Stage("download", ok))
        IN  IF ok
            THEN /\ created' = created \cup {VideoPath(i)}
                 /\ Proceed(l, Append(temp_files, VideoPath(i)),
                            IF i + 1 >= request_data.video_assets
                            THEN "processing" ELSE "download_video")
            ELSE /\ created' = created
                 /\ FailJob(l, temp_files)
    /\ UNCHANGED <<request_data, validatorVars, timingVars, syncVars, extractorVars>>

\* progress 'processing', then process_complete_video and the check of the
\* status of its result
ProcessVideo ==
    /\ pc = "processing"
    /\ \E outcome \in ProcessingOutcomes(request_data.video_assets) :
        LET res == ProcessCompleteVideo(outcome)
            l == Append(SendProgressUpdate(log, "processing"),
                        Stage("processing", outcome = "success"))
        IN  /\ created' = IF outcome = "failed_before_export"
                          THEN created ELSE created \cup {OutputPath}
            /\ IF res.status # "success"
               THEN FailJob(l, temp_files)
               ELSE Proceed(l, temp_files, "upload")
    /\ UNCHANGED <<request_data, validatorVars, timingVars, syncVars, extractorVars>>

\* progress 'uploading', then upload_to_storage (its arguments read
\* storage_config, which raises when storage_config is null),
\* temp_files.append(output_path), the completion callback, return; finally
UploadToStorage ==
    /\ pc = "upload"
    /\ LET ok == request_data.storage_config # "null"
           l == Append(SendProgressUpdate(log, "uploading"), Stage("upload", ok))
           final_result == [status |-> "completed", output_url |-> TRUE, error |-> FALSE]
           files == Append(temp_files, OutputPath)
       IN  IF ok
           THEN /\ result' = final_result
                /\ log' = SendCompletionCallback(l, final_result)
                /\ temp_files' = files
                /\ cleaned' = CleanupTempFiles(files)
                /\ webhookRaised' = "none"
                /\ pc' = "returned"
           ELSE FailJob(l, temp_files)
    /\ UNCHANGED <<request_data, created, validatorVars, timingVars, syncVars, extractorVars>>

WebhookNext ==
    \/ CheckRequiredFields
    \/ ValidateAssetAccessibility
    \/ DownloadAudio
    \/ DownloadVideo
    \/ ProcessVideo
    \/ UploadToStorage

WebhookSpec == WebhookInit /\ [][WebhookNext]_vars

----------------------------------------------------------------------------
(* AudioDurationExtractor: extract_duration and clear_cache on one         *)
(* instance.  What a backend does with a file (return a duration, raise)   *)
(* is the environment's choice at each call.                               *)

MaxPaths == 2

\* the file paths callers ask about
Paths == 1..MaxPaths

\* what one backend call does: return a duration, or raise an exception
\* whose str() is error
BackendOutcomes ==
    {[ok |-> TRUE, duration |-> d, error |-> "none"] : d \in {S, 2 * S}}
    \cup {[ok |-> FALSE, duration |-> 0, error |-> e] : e \in {"decode", "io"}}

Invocation(backend, outcome) ==
    [backend |-> backend, ok |-> outcome.ok, duration |-> outcome.duration,
     error |-> outcome.error]

InvokeBackendsBoth(primary, fallback) ==
    [invoked |-> <<Invocation("librosa", primary), Invocation("moviepy", fallback)>>,
     raised |-> IF primary.ok \/ fallback.ok THEN <<>> ELSE <<primary.error, fallback.error>>,
     duration |-> IF primary.ok THEN primary.duration ELSE fallback.duration]

\* try: librosa.get_duration  except Exception: try: AudioFileClip
\* except Exception: raise Exception(f"Both ... failed: {e}, {fallback_error}")
InvokeBackends(primary, fallback) ==
    IF primary.ok
    THEN [invoked |-> <<Invocation("librosa", primary)>>, raised |-> <<>>,
          duration |-> primary.duration]
    ELSE IF fallback.ok
    THEN [invoked |-> <<Invocation("librosa", primary), Invocation("moviepy", fallback)>>,
          raised |-> <<>>, duration |-> fallback.duration]
    ELSE [invoked |-> <<Invocation("librosa", primary), Invocation("moviepy", fallback)>>,
          raised |-> <<primary.error, fallback.error>>, duration |-> 0]

CacheHitIgnoringFlag(cache, file_path, use_cache) == file_path \in DOMAIN cache

\* if use_cache and file_path in self._duration_cache
CacheHit(cache, file_path, use_cache) == use_cache /\ file_path \in DOMAIN cache

\* self._duration_cache[file_path] = duration
CacheSet(cache, file_path, duration) ==
    [p \in DOMAIN cache \cup {file_path} |-> IF p = file_path THEN duration ELSE cache[p]]

ExtractDuration(cache, file_path, use_cache, primary, fallback) ==
    IF CacheHit(cache, file_path, use_cache)
    THEN [cache |-> cache, invoked |-> <<>>, raised |-> <<>>, duration |-> cache[file_path]]
    ELSE LET tried == InvokeBackends(primary, fallback) IN
         [cache |-> IF tried.raised = <<>> /\ use_cache
                    THEN CacheSet(cache, file_path, tried.duration)
                    ELSE cache,
          invoked |-> tried.invoked, raised |-> tried.raised, duration |-> tried.duration]

ExtractorInit ==
    scenes = <<>> /\ ValidatorIdle /\ TimingIdle /\ SyncIdle /\ WebhookIdle /\ ExtractorIdle

CallExtractDuration ==
    \E file_path \in Paths, use_cache \in BOOLEAN, primary \in BackendOutcomes,
       fallback \in BackendOutcomes :
        LET out == ExtractDuration(duration_cache, file_path, use_cache, primary, fallback) IN
        /\ duration_cache' = out.cache
        /\ extractorOp' = "extract_duration"
        /\ extractorArgs' = [file_path |-> file_path, use_cache |-> use_cache]
        /\ invoked' = out.invoked
        /\ extracted' = out.duration
        /\ extractorRaised' = out.raised
        /\ UNCHANGED <<validatorVars, timingVars, syncVars, webhookVars>>

\* self._duration_cache.clear()
CallClearCache ==
    /\ duration_cache' = EmptyCache
    /\ extractorOp' = "clear_cache"
    /\ extractorArgs' = <<>>
    /\ invoked' = <<>>
    /\ extracted' = 0
    /\ extractorRaised' = <<>>
    /\ UNCHANGED <<validatorVars, timingVars, syncVars, webhookVars>>

ExtractorNext ==
    \/ CallExtractDuration
    \/ CallClearCache

ExtractorSpec == ExtractorInit /\ [][ExtractorNext]_vars

----------------------------------------------------------------------------
(* The timing steps of the assembly pipeline: scene distribution, sync to  *)
(* the master audio, the timeline handed to validation, and the repair.    *)
(* VideoAssembler.assemble_complete_video and                              *)
(* VideoProcessor.process_complete_video run the same steps on their own   *)
(* calculator, sync and validator objects; the former also applies the     *)
(* repaired durations to the clips.                                        *)

NextSceneStartFixed(current_time, duration) == current_time

\* current_time += duration
NextSceneStart(current_time, duration) == current_time + duration

\* for clip, duration in zip(clips, durations): scenes.append({...})
RECURSIVE CreateSceneMetadata(_, _, _, _, _)
CreateSceneMetadata(clips, ds, i, current_time, acc) ==
    IF i > Min(Len(clips), Len(ds)) THEN acc
    ELSE CreateSceneMetadata(clips, ds, i + 1, NextSceneStart(current_time, ds[i]),
                             Append(acc, Scene(current_time, current_time + ds[i], ds[i])))

\* steps 1 to 3 of assemble_complete_video (3 to 5 of process_complete_video);
\* stage is the last step entered, raised the exception that ended it
PipelineTiming(inst, video_clips, audio_duration, apply_fixes) ==
    LET dist == DistributeSceneDurations(inst, audio_duration, Len(video_clips),
                                         0, 0, FALSE, NoNoise)
        sync == SyncCompleteVideoToMasterAudio(video_clips, audio_duration, TRUE,
                                               dist.durations)
        timeline == CreateSceneMetadata(sync.synced, sync.caller, 1, 0, <<>>)
        validation == ValidateSceneContinuity(timeline, Tolerance)
        repair == FixAllTimingIssues(<<timeline>>, 1, 0)
        notReached == [dist |-> dist, sync |-> NoBatch, caller |-> <<>>, scenes |-> <<>>,
                       validation |-> NoReport, fixed |-> <<>>, attempts |-> 0,
                       clips |-> <<>>]
    IN  IF dist.raised # "none"
        THEN notReached @@ [stage |-> "distribute", raised |-> dist.raised]
        ELSE IF sync.raised # "none"
        THEN [notReached EXCEPT !.sync = [raised |-> sync.raised, synced |-> sync.synced,
                                          passed |-> sync.passed],
                                !.caller = sync.caller]
             @@ [stage |-> "sync", raised |-> sync.raised]
        ELSE LET reached ==
                     [notReached EXCEPT !.sync = [raised |-> "none", synced |-> sync.synced,
                                                  passed |-> sync.passed],
                                        !.caller = sync.caller,
                                        !.scenes = timeline,
                                        !.validation = validation,
                                        !.clips = sync.synced]
             IN  IF validation.raised # "none"
                 THEN reached @@ [stage |-> "validate", raised |-> validation.raised]
                 ELSE IF validation.is_valid
                 THEN reached @@ [stage |-> "validate", raised |-> "none"]
                 ELSE IF repair.raised # "none"
                 THEN [reached EXCEPT !.attempts = repair.attempts]
                      @@ [stage |-> "fix", raised |-> repair.raised]
                 ELSE LET fixed_scenes == repair.heap[repair.ret] IN
                      [reached EXCEPT
                           !.fixed = fixed_scenes,
                           !.attempts = repair.attempts,
                           !.clips = IF apply_fixes
                                     THEN [k \in 1..Len(sync.synced) |->
                                              IF k <= Len(fixed_scenes)
                                              THEN SetDuration(sync.synced[k],
                                                               fixed_scenes[k].duration)
                                              ELSE sync.synced[k]]
                                     ELSE sync.synced]
                      @@ [stage |-> "fix", raised |-> "none"]

\* audio_clip.duration and video_clips of a job
AssemblyJobs ==
    {[audio_duration |-> a, video_clips |-> c] :
        a \in {0, S, S + 1, 2 * S, 7 * S, 10 * S + 1},
        c \in UNION {[1..n -> {Clip(S), Clip(10 * S)}] : n \in 0..MaxCount}}

AssemblyInit ==
    scenes = <<>> /\ ValidatorIdle /\ TimingIdle /\ SyncIdle /\ WebhookIdle /\ ExtractorIdle

\* VideoAssembler.assemble_complete_video up to the end of step 3; each
\* component holds what its call in the pipeline left
CallAssembleCompleteVideo ==
    /\ timingOp = "none"
    /\ \E job \in AssemblyJobs :
        \E out \in {PipelineTiming([deficits |-> deficits, surpluses |-> surpluses],
                                  job.video_clips, job.audio_duration, TRUE)} :
            /\ timingOp' = "distribute_scene_durations"
            /\ timingArgs' = [NoTimingArgs EXCEPT !.audio_duration = job.audio_duration,
                                                  !.scene_count = Len(job.video_clips)]
            /\ timingRaised' = out.dist.raised
            /\ durations' = out.dist.durations
            /\ deficits' = out.dist.deficits
            /\ surpluses' = out.dist.surpluses
            /\ syncOp' = IF out.stage = "distribute" THEN "none"
                         ELSE "sync_complete_video_to_master_audio"
            /\ syncArgs' = IF out.stage = "distribute" THEN <<>>
                           ELSE [video_scenes |-> job.video_clips,
                                 master_audio_duration |-> job.audio_duration,
                                 given |-> TRUE, scene_durations |-> out.dist.durations]
            /\ syncRaised' = out.sync.raised
            /\ synced' = out.clips
            /\ passed' = out.sync.passed
            /\ sceneDurations' = out.caller
            /\ scenes' = out.scenes
            /\ op' = CASE out.stage = "validate" -> "validate_scene_continuity"
                       [] out.stage = "fix" -> "fix_all_timing_issues"
                       [] OTHER -> "none"
            /\ raised' = IF out.stage \in {"validate", "fix"} THEN out.raised ELSE "none"
            /\ report' = out.validation
            /\ fixed' = out.fixed
            /\ attempts' = out.attempts
            /\ argTol' = IF out.stage \in {"validate", "fix"} THEN Tolerance ELSE 0
            /\ applications' = IF out.stage = "fix" THEN 1 ELSE 0
            /\ UNCHANGED <<argMin, argTarget, webhookVars, extractorVars>>

\* VideoProcessor.process_complete_video, steps 2 to 5: _load_video_clips
\* makes one clip of 10.0 s per video file, and the repaired scenes are
\* only logged
CallProcessCompleteVideo ==
    /\ timingOp = "none"
    /\ \E job \in AssemblyJobs :
        LET video_clips == Repeat(Clip(10 * S), Len(job.video_clips)) IN
        \E out \in {PipelineTiming([deficits |-> deficits, surpluses |-> surpluses],
                                  video_clips, job.audio_duration, FALSE)} :
            /\ job.video_clips = video_clips
            /\ timingOp' = "distribute_scene_durations"
            /\ timingArgs' = [NoTimingArgs EXCEPT !.audio_duration = job.audio_duration,
                                                  !.scene_count = Len(video_clips)]
            /\ timingRaised' = out.dist.raised
            /\ durations' = out.dist.durations
            /\ deficits' = out.dist.deficits
            /\ surpluses' = out.dist.surpluses
            /\ syncOp' = IF out.stage = "distribute" THEN "none"
                         ELSE "sync_complete_video_to_master_audio"
            /\ syncArgs' = IF out.stage = "distribute" THEN <<>>
                           ELSE [video_scenes |-> video_clips,
                                 master_audio_duration |-> job.audio_duration,
                                 given |-> TRUE, scene_durations |-> out.dist.durations]
            /\ syncRaised' = out.sync.raised
            /\ synced' = out.clips
            /\ passed' = out.sync.passed
            /\ sceneDurations' = out.caller
            /\ scenes' = out.scenes
            /\ op' = CASE out.stage = "validate" -> "validate_scene_continuity"
                       [] out.stage = "fix" -> "fix_all_timing_issues"
                       [] OTHER -> "none"
            /\ raised' = IF out.stage \in {"validate", "fix"} THEN out.raised ELSE "none"
            /\ report' = out.validation
            /\ fixed' = out.fixed
            /\ attempts' = out.attempts
            /\ argTol' = IF out.stage \in {"validate", "fix"} THEN Tolerance ELSE 0
            /\ applications' = IF out.stage = "fix" THEN 1 ELSE 0
            /\ UNCHANGED <<argMin, argTarget, webhookVars, extractorVars>>

AssemblySpec ==
    AssemblyInit /\ [][CallAssembleCompleteVideo \/ CallProcessCompleteVideo]_vars

----------------------------------------------------------------------------
(* Further properties of the validator *)

\* a scene that breaks one of the structural invariants of a scene
Violates(sc) ==
    \/ \E f \in {"start_time", "end_time", "duration"} : f \notin DOMAIN sc
    \/ sc.end_time <= sc.start_time
    \/ Abs(sc.end_time - sc.start_time - sc.duration) > Tolerance
    \/ sc.start_time < 0
    \/ sc.duration <= 0

\* C19: if any scene of the timeline breaks a structural invariant (missing
\* field, end_time <= start_time, duration off end_time - start_time by more
\* than the tolerance, start_time < 0, duration <= 0),
\* validate_scene_continuity fails with InvalidScene naming the lowest
\* offending scene index and returns no report, whatever gaps or overlaps the
\* other pairs have.
C19_InvalidSceneRaises ==
    (/\ op = "validate_scene_continuity"
     /\ \E i \in 1..Len(scenes) : Violates(scenes[i])) =>
        /\ raised = "InvalidScene"
        /\ report.scene + 1 \in 1..Len(scenes)
        /\ Violates(scenes[report.scene + 1])
        /\ \A j \in 1..report.scene : ~Violates(scenes[j])
        /\ report.gaps = <<>> /\ report.overlaps = <<>> /\ ~report.is_valid
        /\ fixed = <<>>

\* two well-formed scenes with a gap between them, then a malformed one
C19_Witness ==
    /\ op = "validate_scene_continuity"
    /\ raised = "InvalidScene"
    /\ report.scene = 2
    /\ scenes[2].start_time - scenes[1].end_time > Tolerance

C21_ShiftClosesGapsKeepsDurations ==
    (op = "fix_gaps_shift_following" /\ applications = 1 /\ StructurallyValid(scenes)) =>
        /\ raised = "none"
        /\ Len(fixed) = Len(scenes)
        /\ \A i \in 1..Len(scenes) :
               /\ fixed[i].duration = scenes[i].duration
               /\ fixed[i].end_time - fixed[i].start_time =
                      scenes[i].end_time - scenes[i].start_time
        /\ Len(scenes) > 0 => fixed[1] = scenes[1]
        /\ \A i \in 1..(Len(scenes) - 1) :
               /\ GapBetween(fixed, i) <= Tolerance
               /\ GapBetween(scenes, i) > Tolerance => fixed[i + 1].start_time = fixed[i].end_time

\* three scenes: a gap before the second, and a third that followed the
\* second without a gap in the input and is shifted once the second has moved
C21_Witness ==
    /\ op = "fix_gaps_shift_following"
    /\ applications = 1
    /\ Len(scenes) = 3
    /\ StructurallyValid(scenes)
    /\ GapBetween(scenes, 1) > Tolerance
    /\ GapBetween(scenes, 2) = 0
    /\ fixed[2].start_time < scenes[2].start_time
    /\ fixed[3].start_time < scenes[3].start_time

\* each scene starts strictly after its predecessor starts
StrictlyOrdered(t) == \A i \in 1..(Len(t) - 1) : t[i + 1].start_time > t[i].start_time

\* C22: for a structurally valid timeline with overlaps and no gaps in which
\* each scene starts strictly after its predecessor starts,
\* fix_overlaps_trim_previous returns a timeline that validate_scene_continuity
\* reports valid, with every start_time and the whole last scene unchanged and
\* each trimmed scene ending exactly at its successor's start.
C22_TrimRepairsOverlaps ==
    (/\ op = "fix_overlaps_trim_previous"
     /\ applications = 1
     /\ Revalidated(scenes).raised = "none"
     /\ Revalidated(scenes).overlaps # <<>>
     /\ Revalidated(scenes).gaps = <<>>
     /\ StrictlyOrdered(scenes)) =>
        /\ raised = "none"
        /\ ReportedValid(fixed)
        /\ Len(fixed) = Len(scenes)
        /\ \A i \in 1..Len(scenes) : fixed[i].start_time = scenes[i].start_time
        /\ fixed[Len(fixed)] = scenes[Len(scenes)]
        /\ \A i \in 1..(Len(scenes) - 1) :
               IF scenes[i].end_time > scenes[i + 1].start_time
               THEN /\ fixed[i].end_time = fixed[i + 1].start_time
                    /\ fixed[i].duration = fixed[i].end_time - fixed[i].start_time
               ELSE fixed[i] = scenes[i]

\* three scenes, the first two each overlapping its successor by more than
\* the tolerance
C22_Witness ==
    /\ op = "fix_overlaps_trim_previous"
    /\ applications = 1
    /\ Len(scenes) = 3
    /\ StrictlyOrdered(scenes)
    /\ Len(Revalidated(scenes).overlaps) = 2
    /\ ReportedValid(fixed)
    /\ fixed[1].duration < scenes[1].duration
    /\ fixed[2].duration < scenes[2].duration

\* C25: repair is idempotent: for a structurally valid timeline t and each of
\* fix_gaps_extend_previous (same min_scene_duration), fix_gaps_shift_following,
\* fix_overlaps_trim_previous and fix_all_timing_issues, the repair applied to
\* its own result returns that result again, scene for scene.
C25_RepairIdempotent ==
    (op \in RepairOperations /\ applications >= 2) =>
        raised = "none" /\ fixed = scenes

\* fix_all_timing_issues given its own result, which took the fallback again
\* because an overlap at a floored scene remains
C25_Witness ==
    /\ op = "fix_all_timing_issues"
    /\ applications = 2
    /\ attempts = 2
    /\ raised = "none"
    /\ ~ReportedValid(fixed)
    /\ fixed = scenes

\* C26: for a non-empty timeline with positive total duration and a target
\* duration > 0, enforce_total_duration returns a timeline whose first scene
\* keeps the input's first start_time and in which every later scene starts
\* exactly at its predecessor's end_time.
C26_EnforceKeepsFirstStart ==
    (/\ op = "enforce_total_duration"
     /\ Len(scenes) > 0
     /\ SumSeq(Durations(scenes)) > 0
     /\ argTarget > 0) =>
        /\ raised = "none"
        /\ fixed[1].start_time = scenes[1].start_time
        /\ \A i \in 1..(Len(fixed) - 1) : fixed[i + 1].start_time = fixed[i].end_time

\* C27: sync_complete_video_to_master_audio does not mutate its inputs: after
\* the call, whether it returned or failed, the caller's scene_durations list
\* holds the values it held before.
C27_SceneDurationsUnchanged ==
    (syncOp = "sync_complete_video_to_master_audio" /\ syncArgs.given) =>
        sceneDurations = syncArgs.scene_durations

\* the scene was floored by fix_overlaps_trim_previous: it lasts 0.1 s and its
\* successor starts no later than it does
Floored(t, i) ==
    /\ t[i].duration = OverlapFloor
    /\ t[i].end_time = t[i].start_time + OverlapFloor
    /\ t[i + 1].start_time <= t[i].start_time

\* C28: for every structurally valid timeline, the timeline
\* fix_all_timing_issues returns, from the trim-then-extend pass or from the
\* shift-then-trim fallback, has no adjacent pair with a gap greater than the
\* tolerance; every overlap that remains is at a scene whose duration was
\* floored to 0.1 s.
C28_FixAllLeavesOnlyFlooredOverlaps ==
    (/\ op = "fix_all_timing_issues"
     /\ applications = 1
     /\ raised = "none"
     /\ StructurallyValid(scenes)) =>
        /\ Len(fixed) = Len(scenes)
        /\ \A i \in 1..(Len(fixed) - 1) :
               /\ GapBetween(fixed, i) <= Tolerance
               /\ GapBetween(fixed, i) < -Tolerance => Floored(fixed, i)

\* the fallback ran on a timeline with a gap, closed it, and left an overlap
\* at a floored scene
C28_Witness ==
    /\ op = "fix_all_timing_issues"
    /\ applications = 1
    /\ attempts = 2
    /\ raised = "none"
    /\ Len(scenes) = 3
    /\ \E i \in 1..2 : GapBetween(scenes, i) > Tolerance
    /\ \E i \in 1..2 : GapBetween(fixed, i) < -Tolerance /\ Floored(fixed, i)

\* C29: structural validity is preserved by repair: if every scene of the
\* input has start_time >= 0, duration > 0, end_time > start_time and duration
\* = end_time - start_time within the tolerance, so has every scene of what
\* fix_gaps_extend_previous, fix_gaps_shift_following,
\* fix_overlaps_trim_previous and fix_all_timing_issues return, and validating
\* the repaired timeline does not raise.
C29_RepairKeepsStructure ==
    (/\ op \in RepairOperations
     /\ applications = 1
     /\ raised = "none"
     /\ StructurallyValid(scenes)) =>
        /\ StructurallyValid(fixed)
        /\ Revalidated(fixed).raised = "none"

\* a trim that floored the first scene and shortened the second
C29_Witness ==
    /\ op = "fix_overlaps_trim_previous"
    /\ applications = 1
    /\ Len(scenes) = 3
    /\ StructurallyValid(scenes)
    /\ Floored(fixed, 1)
    /\ fixed[2].duration < scenes[2].duration
    /\ StructurallyValid(fixed)

----------------------------------------------------------------------------
(* Properties of the assembly pipeline *)

\* the pipeline got as far as handing a timeline to validate_scene_continuity
TimelineValidated ==
    /\ timingOp = "distribute_scene_durations"
    /\ syncOp = "sync_complete_video_to_master_audio"
    /\ syncRaised = "none"
    /\ op \in {"validate_scene_continuity", "fix_all_timing_issues"}

\* C30: in the assembly pipeline the timeline handed to validation is built by
\* cumulating the computed scene durations from 0, each scene starting at the
\* previous scene's end; for positive durations it is reported valid and the
\* repair step (fix_all_timing_issues, and the re-setting of clip durations)
\* is not reached; the durations used for composition are the ones scene
\* distribution computed.
C30_PipelineNeverRepairs ==
    (TimelineValidated /\ \A i \in 1..Len(durations) : durations[i] > 0) =>
        /\ Len(scenes) = Len(durations)
        /\ \A i \in 1..Len(scenes) :
               /\ scenes[i].start_time = IF i = 1 THEN 0 ELSE scenes[i - 1].end_time
               /\ scenes[i].duration = durations[i]
               /\ scenes[i].end_time = scenes[i].start_time + durations[i]
        /\ raised = "none"
        /\ report.is_valid
        /\ op = "validate_scene_continuity"
        /\ fixed = <<>>
        /\ sceneDurations = durations
        /\ Len(synced) = Len(durations)
        /\ \A i \in 1..Len(synced) :
               synced[i] = SetDuration(syncArgs.video_scenes[i], durations[i])

\* four clips against 10.0001 s of audio: the distributed durations do not
\* sum to the audio duration exactly, and the timeline is valid all the same
C30_Witness ==
    /\ TimelineValidated
    /\ Len(scenes) = 4
    /\ SumSeq(durations) # timingArgs.audio_duration
    /\ report.is_valid
    /\ scenes[4].start_time = scenes[3].end_time
    /\ synced[4] = SetDuration(Clip(S), durations[4])

----------------------------------------------------------------------------
(* Properties of AudioDurationExtractor *)

ExtractCalled == extractorOp = "extract_duration"

\* C23: extract_duration tries the backends strictly in order: if the primary
\* backend succeeds its duration is returned and the fallback is never invoked;
\* if the primary raises, the fallback is invoked and its duration returned; if
\* both raise, one error is raised whose description holds the failure of each.
C23_BackendsInOrder ==
    (ExtractCalled /\ invoked # <<>>) =>
        /\ invoked[1].backend = "librosa"
        /\ IF invoked[1].ok
           THEN /\ Len(invoked) = 1
                /\ extractorRaised = <<>>
                /\ extracted = invoked[1].duration
           ELSE /\ Len(invoked) = 2
                /\ invoked[2].backend = "moviepy"
                /\ IF invoked[2].ok
                   THEN extractorRaised = <<>> /\ extracted = invoked[2].duration
                   ELSE extractorRaised = <<invoked[1].error, invoked[2].error>>

\* both backends raised, each with its own failure
C23_Witness ==
    /\ ExtractCalled
    /\ Len(invoked) = 2
    /\ ~invoked[1].ok /\ ~invoked[2].ok
    /\ invoked[1].error # invoked[2].error
    /\ Len(extractorRaised) = 2

\* C24: the duration cache is opt-in and holds only successful results: a call
\* with use_cache=false invokes a backend and leaves the cache as it was; a
\* call with use_cache=true for a path not in the cache stores the duration a
\* backend returned, and nothing when both failed; a call with use_cache=true
\* for a cached path returns the stored value without invoking a backend; and
\* clear_cache empties the cache.
C24_CacheOptInSuccessOnly ==
    [][/\ extractorOp' = "clear_cache" => duration_cache' = EmptyCache
       /\ extractorOp' = "extract_duration" =>
              LET file_path == extractorArgs'.file_path
                  use_cache == extractorArgs'.use_cache
                  cached == file_path \in DOMAIN duration_cache
              IN  /\ ~use_cache =>
                         /\ duration_cache' = duration_cache
                         /\ invoked' # <<>>
                         /\ extractorRaised' = <<>> =>
                                extracted' = invoked'[Len(invoked')].duration
                  /\ (use_cache /\ cached) =>
                         /\ invoked' = <<>>
                         /\ extractorRaised' = <<>>
                         /\ extracted' = duration_cache[file_path]
                         /\ duration_cache' = duration_cache
                  /\ (use_cache /\ ~cached) =>
                         /\ invoked' # <<>>
                         /\ IF extractorRaised' # <<>>
                            THEN duration_cache' = duration_cache
                            ELSE /\ DOMAIN duration_cache' = DOMAIN duration_cache \cup {file_path}
                                 /\ duration_cache'[file_path] = extracted'
                                 /\ \A p \in DOMAIN duration_cache :
                                        duration_cache'[p] = duration_cache[p]
      ]_vars

\* a use_cache=true call answered from a cache that holds every path
C24_Witness ==
    /\ ExtractCalled
    /\ extractorArgs.use_cache
    /\ invoked = <<>>
    /\ DOMAIN duration_cache = Paths
    /\ extracted = duration_cache[extractorArgs.file_path]

----------------------------------------------------------------------------
(* Properties of the webhook *)

IsStageEntry(e) == e.kind = "stage"

StagesRun == SelectSeq(log, IsStageEntry)

\* the stages of a job that goes through, one download per file
ExpectedStages(video_assets) ==
    <<"required_fields", "asset_validation">>
        \o [i \in 1..(video_assets + 1) |-> "download"]
        \o <<"processing", "upload">>

SomeStageFailed == \E i \in 1..Len(StagesRun) : ~StagesRun[i].ok

ProgressRank(stage) ==
    CASE stage = "validating" -> 1
      [] stage = "downloading" -> 2
      [] stage = "processing" -> 3
      [] stage = "uploading" -> 4
      [] OTHER -> 0

\* the progress notification that announces a stage
ProgressOf(stage) ==
    CASE stage = "asset_validation" -> "validating"
      [] stage = "download" -> "downloading"
      [] stage = "processing" -> "processing"
      [] stage = "upload" -> "uploading"
      [] OTHER -> "none"

FinalsSent == {i \in 1..Len(log) : log[i].kind = "final"}

\* C12: for a job with a callback_url, progress notifications are sent at most
\* once each and in the order validating, downloading, processing, uploading,
\* each before its stage runs; exactly one final notification ('completed' or
\* 'failed') is sent, after every progress notification.
C12_NotificationOrder ==
    request_data.callback_url =>
        /\ \A i, j \in 1..Len(log) :
               (i < j /\ log[i].kind = "progress" /\ log[j].kind = "progress")
                   => ProgressRank(log[i].name) < ProgressRank(log[j].name)
        /\ \A j \in 1..Len(log) :
               (log[j].kind = "stage" /\ ProgressOf(log[j].name) # "none")
                   => \E i \in 1..(j - 1) : log[i] = Progress(ProgressOf(log[j].name))
        /\ \A i \in FinalsSent :
               i = Len(log) /\ log[i].name \in {"completed", "failed"}
        /\ pc = "returned" => Cardinality(FinalsSent) = 1

\* a job that went through all four stages and reported completion
C12_Witness ==
    /\ pc = "returned"
    /\ request_data.callback_url
    /\ \A st \in {"validating", "downloading", "processing", "uploading"} :
           \E i \in 1..Len(log) : log[i] = Progress(st)
    /\ log[Len(log)] = Final("completed")

\* C13: on every exit of process_video_request cleanup is attempted for every
\* temporary file the job has created: the downloaded audio file, each
\* downloaded video file, and the exported output file once it is written.
C13_CleanupCoversCreated ==
    pc = "returned" => created \subseteq cleaned

====
